---- MODULE Spec2Model ----
(***************************************************************************)
(* A model of backend/app/analyzer.py: VideoAnalyzer.analyze and its       *)
(* stages _extract_keyframes (DHash keyframe selection), _analyze_segment  *)
(* (one vision request per keyframe, run under asyncio.gather) and         *)
(* _generate_global_summary (one narrative request).                       *)
(*                                                                         *)
(* Representation.                                                         *)
(*  - A 64-bit hash is the set of its 1-bit positions (a subset of         *)
(*    0..63); h1 ^ h2 is the symmetric difference and bin(..).count('1')   *)
(*    its cardinality.                                                     *)
(*  - A time in seconds is an exact fraction [n |-> numerator,             *)
(*    d |-> denominator]; frame_idx / fps is [n |-> frame_idx, d |-> fps]. *)
(*    Binary floating-point rounding of the division is not modelled.      *)
(*  - Optional[T] is a sequence of length <= 1: <<>> is None, <<x>> is x.  *)
(*  - A JSON object / Python dict is a function from its keys to values;   *)
(*    every value is a tuple of integers.                                  *)
(*  - "mm:ss" is the pair <<minutes, seconds>> the format string prints.   *)
(*  - The base64 JPEG of a frame is represented by the frame's index.      *)
(***************************************************************************)
EXTENDS Integers, Sequences, FiniteSets, TLC

(***************************************************************************)
(* Bounds of the model (not program constants).                            *)
(***************************************************************************)
\* sampled frames of the exhaustively enumerated short videos
MaxShort == 3
\* sampled frames of the high-motion videos (every sampled frame differs)
MaxLong == 22
\* sampled frames of the static videos with two cuts, at 30 fps
MaxCut == 31
\* vision replies other than the plain success, per analyze run
MaxFaults == 1
\* the same, for the runs on high-motion videos
MaxMotionFaults == 0
\* vision requests that may time out in a run of the timeout-only family
MaxTimeouts == 1
\* earlier-issued vision requests a response may overtake
MaxOvertake == 1
\* the brightest pixel level of the enumerated grayscale images
MaxLevel == 2
\* 1 bits (or, complemented, 0 bits) of the enumerated hash pairs
MaxBitsSet == 2
\* listeners registered with a state machine at one time
MaxListeners == 2
\* chunks one ASR, LLM or TTS stream delivers
MaxChunks == 2
\* the largest max_retries passed to retry_async
MaxRetriesArg == 2

(***************************************************************************)
(* Program constants.                                                      *)
(***************************************************************************)
check_interval == 3
HashThreshold == 5
HardCap == 20
InitialLastSelected == -999
HashBits == 64

MinGap == [n |-> 1, d |-> 1]

(***************************************************************************)
(* Optional values                                                         *)
(***************************************************************************)
None == <<>>

Some(x) == <<x>>

(***************************************************************************)
(* Exact fractions with positive denominators.                             *)
(***************************************************************************)
FracSub(a, b) == [n |-> a.n * b.d - b.n * a.d, d |-> a.d * b.d]

FracGE(a, b) == a.n * b.d >= b.n * a.d

FracLT(a, b) == a.n * b.d < b.n * a.d

FracEQ(a, b) == a.n * b.d = b.n * a.d

Zero == [n |-> 0, d |-> 1]

(***************************************************************************)
(* Perceptual hasher: _hamming_distance.                                   *)
(***************************************************************************)
Hash == SUBSET (0 .. HashBits - 1)

Xor(h1, h2) == (h1 \ h2) \cup (h2 \ h1)

HammingDistance(h1, h2) == Cardinality(Xor(h1, h2))

(***************************************************************************)
(* Perceptual hasher, as the code computes it.  A Python int in [0, 2^64)  *)
(* is the tuple of its four base-65536 digits, most significant first; a   *)
(* str is the tuple of its characters.                                     *)
(***************************************************************************)
LimbBits == 16

LimbBase == 65536

NumLimbs == 4

\* the value of a string of at most LimbBits binary digits
RECURSIVE ParseBinary(_)
ParseBinary(str) ==
    IF Len(str) = 0
    THEN 0
    ELSE 2 * ParseBinary(SubSeq(str, 1, Len(str) - 1))
            + (IF str[Len(str)] = "1" THEN 1 ELSE 0)

\* int(hash_str, 2), for a string of HashBits binary digits
IntOfBinary(str) ==
    [k \in 1 .. NumLimbs |->
        ParseBinary(SubSeq(str, LimbBits * (k - 1) + 1, LimbBits * k))]

\* x ^ y on naturals
RECURSIVE XorNat(_, _)
XorNat(x, y) ==
    IF x = 0 THEN y
    ELSE IF y = 0 THEN x
    ELSE ((x + y) % 2) + 2 * XorNat(x \div 2, y \div 2)

\* x | y on naturals
RECURSIVE OrNat(_, _)
OrNat(x, y) ==
    IF x = 0 THEN y
    ELSE IF y = 0 THEN x
    ELSE (IF x % 2 = 1 \/ y % 2 = 1 THEN 1 ELSE 0) + 2 * OrNat(x \div 2, y \div 2)

\* hash1 ^ hash2
XorInt(hash1, hash2) == [k \in 1 .. NumLimbs |-> XorNat(hash1[k], hash2[k])]

\* the binary digits of a natural below 2^width, in exactly width characters
RECURSIVE Digits(_, _)
Digits(x, width) ==
    IF width = 0
    THEN <<>>
    ELSE Append(Digits(x \div 2, width - 1), IF x % 2 = 1 THEN "1" ELSE "0")

RECURSIVE StripLeadingZeros(_)
StripLeadingZeros(str) ==
    IF Len(str) > 1 /\ str[1] = "0" THEN StripLeadingZeros(Tail(str)) ELSE str

\* bin(x): "0b", then the digits of x without leading zeros ("0b0" for 0)
Bin(x) ==
    <<"0", "b">> \o
    StripLeadingZeros(Digits(x[1], LimbBits) \o Digits(x[2], LimbBits)
                      \o Digits(x[3], LimbBits) \o Digits(x[4], LimbBits))

\* str.count(ch) for a one-character ch
Count(str, ch) == Cardinality({p \in 1 .. Len(str) : str[p] = ch})

\* a variant of hamming_distance: the bits set in either hash are counted
hamming_distance_of_union(hash1, hash2) ==
    Count(Bin([k \in 1 .. NumLimbs |-> OrNat(hash1[k], hash2[k])]), "1")

\* _hamming_distance: bin(hash1 ^ hash2).count('1')
hamming_distance(hash1, hash2) == Count(Bin(XorInt(hash1, hash2)), "1")

\* a variant of DhashBit: equal neighbours give 1 (>= instead of >)
DhashBitNotLess(gray, i, j) == IF gray[i][j] >= gray[i][j + 1] THEN "1" ELSE "0"

\* the character one step of the double loop of _dhash appends
DhashBit(gray, i, j) == IF gray[i][j] > gray[i][j + 1] THEN "1" ELSE "0"

\* the rows and the column pairs the double loop visits
DhashRows == 8

DhashCols == 8

\* hash_str after the double loop: row by row, left to right
DhashString(gray) ==
    [p \in 1 .. DhashRows * DhashCols |->
        DhashBit(gray, (p - 1) \div DhashCols, (p - 1) % DhashCols)]

\* _dhash, from the grayscale 9 x 8 image on
dhash(gray) == IntOfBinary(DhashString(gray))

\* bit p of an int, p = 0 being the least significant
BitAt(x, p) == (x[NumLimbs - (p \div LimbBits)] \div (2 ^ (p % LimbBits))) % 2

\* the positions of the 1 bits of an int: the int as a member of Hash
BitSet(x) == {p \in 0 .. HashBits - 1 : BitAt(x, p) = 1}

(***************************************************************************)
(* Keyframe selector: the pieces of one sampled tick of _extract_keyframes *)
(***************************************************************************)
\* dist = 0, then the distance to prev_hash when there is one
Dist(prev, curr) ==
    IF prev # None THEN HammingDistance(prev[1], curr) ELSE 0

\* a variant of IsSignificant: a distance of exactly 5 counts (>= 5)
IsSignificantAtThreshold(prev, curr) ==
    IF prev # None THEN Dist(prev, curr) >= HashThreshold ELSE TRUE

\* is_significant: first frame always, otherwise dist > 5
IsSignificant(prev, curr) ==
    IF prev # None THEN Dist(prev, curr) > HashThreshold ELSE TRUE

\* a variant of GapElapsed: any later frame passes (> 0 instead of >= 1.0)
GapElapsedAnyLater(frame_time, last) == FracLT(last, frame_time)

\* (frame_time - last_selected_time) >= 1.0
GapElapsed(frame_time, last) == FracGE(FracSub(frame_time, last), MinGap)

\* f"{int(frame_time//60):02d}:{int(frame_time%60):02d}"
TimestampFmt(t) == << t.n \div (60 * t.d), (t.n % (60 * t.d)) \div t.d >>

\* the dict appended to selected_frames
KeyframeRecord(frame_time, idx, dist) ==
    [ timestamp_sec |-> frame_time,
      timestamp_fmt |-> TimestampFmt(frame_time),
      image_base64  |-> idx,
      change_score  |-> dist ]

\* a variant of UpdatedPrevHash: the reference is set at every sampled tick
UpdatedPrevHashEveryCheck(prev, curr, significant, accepted) == Some(curr)

\* prev_hash after a sampled tick: set on acceptance, and when the frame was
\* not significant; a significant frame the gap guard rejects leaves it alone
UpdatedPrevHash(prev, curr, significant, accepted) ==
    IF significant
    THEN IF accepted THEN Some(curr) ELSE prev
    ELSE Some(curr)

\* a variant of HardCapped: one entry too many survives the cap
HardCappedOffByOne(frames) ==
    IF Len(frames) > HardCap THEN SubSeq(frames, 1, HardCap + 1) ELSE frames

\* a variant of HardCapped: the last 20 are kept instead of the first 20
HardCappedKeepsLast(frames) ==
    IF Len(frames) > HardCap
    THEN SubSeq(frames, Len(frames) - HardCap + 1, Len(frames))
    ELSE frames

\* selected_frames[:20] when longer than 20
HardCapped(frames) ==
    IF Len(frames) > HardCap THEN SubSeq(frames, 1, HardCap) ELSE frames

(***************************************************************************)
(* Segment analyzer: the vision response and what _analyze_segment makes   *)
(* of it.                                                                  *)
(***************************************************************************)
Fields == {"scene", "objects", "action", "ocr"}

FieldValue == <<1>>

ForeignTimestamp == <<99, 99>>

FullObject == [k \in Fields |-> FieldValue]

\* a reply of the vision service, or the way the request failed
\*   net     "ok" | "error" | "timeout": what client.post did
\*   status  the HTTP status of the reply
\*   choices whether the reply's JSON has choices[0].message.content
\*   fenced  whether that content is wrapped in ```json ... ```
\*   json    what the content (fences aside) is: an object, another JSON
\*           value, or no JSON at all
\*   obj     the object, when json = "object"
Reply(net, status, choices, fenced, json, obj) ==
    [net |-> net, status |-> status, choices |-> choices,
     fenced |-> fenced, json |-> json, obj |-> obj]

PlainReply == Reply("ok", 200, TRUE, FALSE, "object", FullObject)

FencedReply == Reply("ok", 200, TRUE, TRUE, "object", FullObject)

StampedReply ==
    Reply("ok", 200, TRUE, FALSE, "object",
          [k \in Fields \cup {"timestamp"} |->
              IF k = "timestamp" THEN ForeignTimestamp ELSE FieldValue])

MissingFieldReply ==
    Reply("ok", 200, TRUE, FALSE, "object",
          [k \in Fields \ {"ocr"} |-> FieldValue])

ArrayReply == Reply("ok", 200, TRUE, FALSE, "array", FullObject)

MalformedReply == Reply("ok", 200, TRUE, FALSE, "invalid", FullObject)

NoChoicesReply == Reply("ok", 200, FALSE, FALSE, "object", FullObject)

HttpErrorReply == Reply("ok", 500, TRUE, FALSE, "object", FullObject)

NetworkError == Reply("error", 200, TRUE, FALSE, "object", FullObject)

Timeout == Reply("timeout", 200, TRUE, FALSE, "object", FullObject)

\* replies that carry a complete, parseable observation
NominalReplies == {PlainReply, FencedReply, StampedReply}

\* every other way a vision request can end
FaultReplies ==
    {MissingFieldReply, ArrayReply, MalformedReply, NoChoicesReply,
     HttpErrorReply, NetworkError, Timeout}

AllReplies == NominalReplies \cup FaultReplies

\* a request whose reply never produces parsed JSON
RequestFailed(r) ==
    \/ r.net # "ok"
    \/ r.status \notin 200 .. 299
    \/ ~r.choices
    \/ r.json = "invalid"

\* content.replace("```json", "").replace("```", "").strip()
StripFences(r) == [r EXCEPT !.fenced = FALSE]

\* json.loads(content): fails on text that is not JSON, fenced text included
JsonLoads(r) ==
    IF r.fenced \/ r.json = "invalid" THEN None ELSE Some(r)

\* a variant of SetTimestamp: data.setdefault("timestamp", ...), which keeps
\* a "timestamp" the reply already has
SetTimestampKeepsExisting(obj, fmt) ==
    [k \in DOMAIN obj \cup {"timestamp"} |->
        IF k \in DOMAIN obj THEN obj[k] ELSE fmt]

\* data["timestamp"] = frame_info["timestamp_fmt"]
SetTimestamp(obj, fmt) ==
    [k \in DOMAIN obj \cup {"timestamp"} |->
        IF k = "timestamp" THEN fmt ELSE obj[k]]

\* a variant of AnalyzeSegment: the HTTP status is not checked
AnalyzeSegmentNoStatusCheck(frame_info, r) ==
    IF r.net # "ok" THEN None
    ELSE IF ~r.choices THEN None
    ELSE LET data == JsonLoads(StripFences(r))
         IN  IF data = None THEN None
             ELSE IF data[1].json # "object" THEN None
             ELSE Some(SetTimestamp(data[1].obj, frame_info.timestamp_fmt))

\* _analyze_segment: the value the coroutine returns for reply r
AnalyzeSegment(frame_info, r) ==
    IF r.net # "ok" THEN None                  \* client.post raised
    ELSE IF r.status \notin 200 .. 299 THEN None   \* raise_for_status
    ELSE IF ~r.choices THEN None               \* result["choices"][0]...
    ELSE LET data == JsonLoads(StripFences(r))
         IN  IF data = None THEN None          \* JSONDecodeError
             ELSE IF data[1].json # "object" THEN None   \* TypeError
             ELSE Some(SetTimestamp(data[1].obj, frame_info.timestamp_fmt))

\* a variant of FilterSegments: the timeline ends at the first failed segment
FilterSegmentsUpToFailure(results) ==
    LET failed == {i \in 1 .. Len(results) : results[i] = None}
        upto == IF failed = {}
                THEN Len(results)
                ELSE (CHOOSE i \in failed : \A j \in failed : i <= j) - 1
    IN  [i \in 1 .. upto |-> results[i][1]]

\* [s for s in segments_data if s is not None]
FilterSegments(results) ==
    LET kept == SelectSeq(results, LAMBDA s : s # None)
    IN  [i \in 1 .. Len(kept) |-> kept[i][1]]

(***************************************************************************)
(* Report aggregator and result assembly.                                  *)
(***************************************************************************)
NoDataReport == "No analysis data available."

\* a variant of NothingToSummarise: the narrative is requested even for an
\* empty timeline
NothingToSummariseNever(segments) == FALSE

\* if not segments: return "No analysis data available."
NothingToSummarise(segments) == Len(segments) = 0

FallbackReport == "Failed to generate report."

NarrativeReport == "narrative"

\* frames_info[-1]["timestamp_sec"] if frames_info else 0
DurationSec(frames) ==
    IF Len(frames) > 0 THEN frames[Len(frames)].timestamp_sec ELSE Zero

\* a variant of AnalysisResult: the duration is the time of the keyframe of
\* the last observation in the timeline
AnalysisResultDurationFromTimeline(frames, segments, report) ==
    LET observed == SelectSeq(frames,
                        LAMBDA f : \E k \in 1 .. Len(segments) :
                                      segments[k].timestamp = f.timestamp_fmt)
    IN  [ file_info |-> [duration_sec |-> DurationSec(observed)],
          timeline  |-> segments,
          report    |-> report ]

AnalysisResult(frames, segments, report) ==
    [ file_info |-> [duration_sec |-> DurationSec(frames)],
      timeline  |-> segments,
      report    |-> report ]

(***************************************************************************)
(* Inputs: the video file and what the media layer reports for it.         *)
(***************************************************************************)
H0 == {}

H5 == 1 .. 5

H6 == 1 .. 6

\* distances: H0-H5 = 5, H0-H6 = 6, H5-H6 = 1
Palette == {H0, H5, H6}

\* how many of the first n frames have an index divisible by check_interval
SampledCount(n) == (n + check_interval - 1) \div check_interval

\* every video of at most MaxShort sampled frames, at assorted frame rates
\* (0 is what the media layer reports when the container has no rate)
ShortInputs ==
    UNION { { [fps |-> f, nframes |-> n, video |-> v, fault_limit |-> MaxFaults,
                fault_kinds |-> AllReplies] :
                f \in {0, 1, 3, 4, 6},
                v \in [1 .. SampledCount(n) -> Palette] } :
            n \in 0 .. check_interval * MaxShort }

\* a high-motion video: every sampled frame differs from the one before by
\* more than the threshold, except that frame `still` (if any) repeats
MotionVideo(len, still) ==
    [i \in 1 .. len |->
        IF ((IF still \in 1 .. i THEN i - 1 ELSE i) % 2) = 1 THEN H0 ELSE H6]

MotionInputs ==
    { [fps |-> 3, nframes |-> check_interval * len, video |-> MotionVideo(len, s),
       fault_limit |-> MaxMotionFaults, fault_kinds |-> AllReplies] :
        len \in (MaxLong - 1) .. MaxLong, s \in {0, 2} }

\* the longest high-motion video and the video without frames, in runs
\* whose only irregularity is that vision requests time out
TimeoutInputs ==
    { [fps |-> 3, nframes |-> check_interval * len, video |-> MotionVideo(len, 0),
       fault_limit |-> MaxTimeouts, fault_kinds |-> {Timeout}] :
        len \in {0, MaxLong} }

\* a 30 fps video showing a until 2.0 s, b from 2.0 s, c from 2.3 s
CutVideo(len, a, b, c) ==
    [i \in 1 .. len |-> IF i <= 20 THEN a ELSE IF i <= 23 THEN b ELSE c]

CutInputs ==
    { [fps |-> 30, nframes |-> check_interval * len, video |-> CutVideo(len, a, b, c),
       fault_limit |-> MaxFaults, fault_kinds |-> AllReplies] :
        len \in (MaxCut - 8) .. MaxCut, a \in Palette, b \in Palette, c \in Palette }

(***************************************************************************)
(* State.                                                                  *)
(***************************************************************************)
VARIABLES
    \* the input
    path_exists,        \* video_path.exists()
    can_open,           \* cap.isOpened()
    fps,                \* cap.get(cv2.CAP_PROP_FPS)
    nframes,            \* frames cap.read() delivers before ret is False
    video,              \* video[k]: the DHash of the ROI of frame 3(k-1)
    fault_limit,        \* vision replies of this run that may be irregular
    fault_kinds,        \* the irregular replies this run may get
    \* control
    pc,                 \* where analyze is
    err,                \* the exception analyze raised, or "none"
    \* _extract_keyframes
    frame_idx,
    prev_hash,
    curr_hash,
    is_significant,
    last_selected_time,
    selected_frames,
    \* analyze
    frames_info,
    tasks,              \* tasks[i]: "inflight" | "settled"
    replies,            \* replies[i]: what request i got, once settled
    results,            \* results[i]: what _analyze_segment(i) returned
    faults,             \* replies so far that were not PlainReply
    overtaken,          \* some reply arrived before that of an earlier request
    vision_posts,       \* vision_posts[i]: client.post calls made for keyframe i
    segments_data,
    summary_request,    \* the segments the narrative request was built from
    summary_posts,      \* client.post calls made by _generate_global_summary
    summary_outcome,    \* how the narrative request ended: "none" | "ok" | "failed"
    final_report,
    result              \* what analyze returned

VARIABLES
    \* _dhash
    gray,               \* the resized grayscale image: gray[i][j], 8 rows of 9
    row,                \* i of the double loop
    col,                \* j of the double loop
    hash_str,
    hash_out,           \* what _dhash returned
    \* _hamming_distance
    hash1,
    hash2,
    distance,           \* what _hamming_distance returned
    hpc                 \* where the hasher is; "off" in runs of analyze

hasher_vars == <<gray, row, col, hash_str, hash_out, hash1, hash2, distance, hpc>>

VARIABLES
    \* StateMachine
    current_state,
    listeners,          \* _listeners, a list of listener identities
    notified,           \* the listener calls of the last operation, in order
    last_call,          \* the last operation called on the state machine
    last_return,        \* what it returned: "True" | "False" | "None"
    state_before        \* current_state when the last operation was called

machine_vars ==
    <<current_state, listeners, notified, last_call, last_return, state_before>>

VARIABLES
    \* ConversationSession
    messages,           \* session.messages: the role and the owner call of each
    \* one entry per call of process_audio / start_conversation
    call_kind,          \* "none" | "process_audio" | "start_conversation"
    cpc,                \* where the generator is suspended
    start_state,        \* the state machine's state when the call started
    transcript_chunks,
    response_chunks,
    audio_chunks,       \* audio chunks the TTS stream has delivered
    failure,            \* what made the call take its except branch
    events              \* the events the generator has yielded, in order

manager_vars ==
    <<messages, call_kind, cpc, start_state, transcript_chunks, response_chunks,
      audio_chunks, failure, events>>

\* the two calls that may run on the one session
Calls == {1, 2}

VARIABLES
    \* one call of ErrorHandler.retry_async
    max_retries_arg,    \* the max_retries keyword: None when it is not passed
    max_retries,        \* the local max_retries after line 80
    attempt,
    last_exception,
    rpc,                \* "off" | "called" | "attempt" | "sleeping" | "returned" | "raised"
    func_calls,         \* how many times func has been invoked
    func_raised,        \* the exception of each failed attempt, in order
    sleeps,             \* the delay of each asyncio.sleep, in order
    retry_outcome       \* what retry_async returned or raised

retry_vars ==
    <<max_retries_arg, max_retries, attempt, last_exception, rpc, func_calls,
      func_raised, sleeps, retry_outcome>>

\* the variables of the components a run of analyze does not touch
other_vars == <<hasher_vars, machine_vars, manager_vars, retry_vars>>

\* retry_async has not been called
RetryOff ==
    /\ max_retries_arg = <<>>
    /\ max_retries = 0
    /\ attempt = 0
    /\ last_exception = <<>>
    /\ rpc = "off"
    /\ func_calls = 0
    /\ func_raised = <<>>
    /\ sleeps = <<>>
    /\ retry_outcome = <<>>

\* no state machine operation has been called
MachineOff ==
    /\ current_state = "idle"
    /\ listeners = <<>>
    /\ notified = <<>>
    /\ last_call = <<"none">>
    /\ last_return = "None"
    /\ state_before = "idle"

\* no conversation call has been made
ManagerOff ==
    /\ messages = <<>>
    /\ call_kind = [c \in Calls |-> "none"]
    /\ cpc = [c \in Calls |-> "unstarted"]
    /\ start_state = [c \in Calls |-> "idle"]
    /\ transcript_chunks = [c \in Calls |-> <<>>]
    /\ response_chunks = [c \in Calls |-> <<>>]
    /\ audio_chunks = [c \in Calls |-> 0]
    /\ failure = [c \in Calls |-> "none"]
    /\ events = [c \in Calls |-> <<>>]

\* the hasher is not being exercised on its own
HasherOff ==
    /\ gray = <<>>
    /\ row = 0
    /\ col = 0
    /\ hash_str = <<>>
    /\ hash_out = None
    /\ hash1 = <<>>
    /\ hash2 = <<>>
    /\ distance = None
    /\ hpc = "off"

input_vars ==
    <<path_exists, can_open, fps, nframes, video, fault_limit, fault_kinds>>

scan_vars ==
    <<frame_idx, prev_hash, curr_hash, is_significant, last_selected_time,
      selected_frames>>

gather_vars ==
    <<frames_info, tasks, replies, results, faults, overtaken, vision_posts>>

report_vars ==
    <<segments_data, summary_request, summary_posts, summary_outcome,
      final_report, result>>

vars == <<input_vars, pc, err, scan_vars, gather_vars, report_vars, other_vars>>

\* the state when analyze is called on an input drawn from `inputs`
InitFrom(inputs) ==
    /\ \E inp \in inputs :
        /\ fps = inp.fps
        /\ nframes = inp.nframes
        /\ video = inp.video
        /\ fault_limit = inp.fault_limit
        /\ fault_kinds = inp.fault_kinds
    /\ HasherOff
    /\ MachineOff
    /\ ManagerOff
    /\ RetryOff
    /\ path_exists \in BOOLEAN
    /\ can_open \in {b \in BOOLEAN : b => path_exists}
    /\ pc = "start"
    /\ err = "none"
    /\ frame_idx = 0
    /\ prev_hash = None
    /\ curr_hash = None
    /\ is_significant = FALSE
    /\ last_selected_time = [n |-> InitialLastSelected, d |-> 1]
    /\ selected_frames = <<>>
    /\ frames_info = <<>>
    /\ tasks = <<>>
    /\ replies = <<>>
    /\ results = <<>>
    /\ faults = 0
    /\ overtaken = FALSE
    /\ vision_posts = <<>>
    /\ segments_data = <<>>
    /\ summary_request = None
    /\ summary_posts = 0
    /\ summary_outcome = "none"
    /\ final_report = None
    /\ result = None

Init == InitFrom(ShortInputs)

InitMotion == InitFrom(MotionInputs)

InitCut == InitFrom(CutInputs)

InitTimeout == InitFrom(TimeoutInputs)

(***************************************************************************)
(* analyze, up to the scan loop.                                           *)
(***************************************************************************)
\* if not video_path.exists(): raise FileNotFoundError
CheckPath ==
    /\ pc = "start"
    /\ pc' = IF path_exists THEN "open" ELSE "raised"
    /\ err' = IF path_exists THEN err ELSE "FileNotFoundError"
    /\ UNCHANGED <<other_vars, input_vars, scan_vars, gather_vars, report_vars>>

\* a variant of OpenVideo: cap.isOpened() is not looked at (cap.read() of a
\* capture that did not open delivers no frame)
OpenVideoUnchecked ==
    /\ pc = "open"
    /\ pc' = "scan"
    /\ err' = err
    /\ frame_idx' = IF can_open THEN 0 ELSE nframes
    /\ prev_hash' = None
    /\ last_selected_time' = [n |-> InitialLastSelected, d |-> 1]
    /\ selected_frames' = <<>>
    /\ UNCHANGED <<other_vars, input_vars, curr_hash, is_significant, gather_vars, report_vars>>

\* cap = cv2.VideoCapture(...); if not cap.isOpened(): raise ValueError;
\* then the loop's accumulators are set
OpenVideo ==
    /\ pc = "open"
    /\ pc' = IF can_open THEN "scan" ELSE "raised"
    /\ err' = IF can_open THEN err ELSE "ValueError"
    /\ frame_idx' = 0
    /\ prev_hash' = None
    /\ last_selected_time' = [n |-> InitialLastSelected, d |-> 1]
    /\ selected_frames' = <<>>
    /\ UNCHANGED <<other_vars, input_vars, curr_hash, is_significant, gather_vars, report_vars>>

(***************************************************************************)
(* _extract_keyframes: one action per iteration of the while loop.         *)
(***************************************************************************)
\* a variant of ScanEnd: a video that gave no keyframe is an error
ScanEndRejectsEmpty ==
    /\ pc = "scan"
    /\ frame_idx >= nframes
    /\ selected_frames' = HardCapped(selected_frames)
    /\ pc' = IF selected_frames = <<>> THEN "raised" ELSE "extracted"
    /\ err' = IF selected_frames = <<>> THEN "ValueError" ELSE err
    /\ UNCHANGED <<other_vars, input_vars, frame_idx, prev_hash, curr_hash,
                   is_significant, last_selected_time, gather_vars, report_vars>>

\* ret is False: break, release, apply the hard cap, return
ScanEnd ==
    /\ pc = "scan"
    /\ frame_idx >= nframes
    /\ selected_frames' = HardCapped(selected_frames)
    /\ pc' = "extracted"
    /\ UNCHANGED <<other_vars, input_vars, err, frame_idx, prev_hash, curr_hash,
                   is_significant, last_selected_time, gather_vars, report_vars>>

\* a variant of ScanSkip: a skipped frame clears the reference hash
ScanSkipClearsReference ==
    /\ pc = "scan"
    /\ frame_idx < nframes
    /\ frame_idx % check_interval # 0
    /\ frame_idx' = frame_idx + 1
    /\ prev_hash' = None
    /\ UNCHANGED <<other_vars, input_vars, pc, err, curr_hash, is_significant,
                   last_selected_time, selected_frames, gather_vars, report_vars>>

\* a frame whose index is not a multiple of check_interval
ScanSkip ==
    /\ pc = "scan"
    /\ frame_idx < nframes
    /\ frame_idx % check_interval # 0
    /\ frame_idx' = frame_idx + 1
    /\ UNCHANGED <<other_vars, input_vars, pc, err, prev_hash, curr_hash, is_significant,
                   last_selected_time, selected_frames, gather_vars, report_vars>>

\* a sampled frame: hash, significance, gap guard, append, reference update;
\* frame_idx / fps raises ZeroDivisionError when fps is 0
ScanSample ==
    /\ pc = "scan"
    /\ frame_idx < nframes
    /\ frame_idx % check_interval = 0
    /\ LET curr == video[frame_idx \div check_interval + 1]
           significant == IsSignificant(prev_hash, curr)
           dist == Dist(prev_hash, curr)
       IN  /\ curr_hash' = Some(curr)
           /\ is_significant' = significant
           /\ IF significant /\ fps = 0
              THEN /\ pc' = "raised"
                   /\ err' = "ZeroDivisionError"
                   /\ UNCHANGED <<frame_idx, prev_hash, last_selected_time,
                                  selected_frames>>
              ELSE LET frame_time == [n |-> frame_idx, d |-> fps]
                       accepted ==
                           significant /\ GapElapsed(frame_time, last_selected_time)
                   IN  /\ selected_frames' =
                              IF accepted
                              THEN Append(selected_frames,
                                          KeyframeRecord(frame_time, frame_idx, dist))
                              ELSE selected_frames
                       /\ last_selected_time' =
                              IF accepted THEN frame_time ELSE last_selected_time
                       /\ prev_hash' =
                              UpdatedPrevHash(prev_hash, curr, significant, accepted)
                       /\ frame_idx' = frame_idx + 1
                       /\ UNCHANGED <<pc, err>>
    /\ UNCHANGED <<other_vars, input_vars, gather_vars, report_vars>>

(***************************************************************************)
(* analyze: the fan-out over the keyframes and the join.                   *)
(***************************************************************************)
\* frames_info = ...; one _analyze_segment coroutine per keyframe, all
\* started by asyncio.gather; each runs up to its await of client.post
GatherStart ==
    /\ pc = "extracted"
    /\ frames_info' = selected_frames
    /\ tasks' = [i \in 1 .. Len(selected_frames) |-> "inflight"]
    /\ replies' = [i \in 1 .. Len(selected_frames) |-> None]
    /\ results' = [i \in 1 .. Len(selected_frames) |-> None]
    /\ faults' = 0
    /\ overtaken' = FALSE
    /\ vision_posts' = [i \in 1 .. Len(selected_frames) |-> 1]
    /\ pc' = "gather"
    /\ UNCHANGED <<other_vars, input_vars, err, scan_vars, report_vars>>

\* request i may settle now: at most MaxOvertake earlier requests are pending
MaySettle(i) ==
    /\ i \in DOMAIN tasks
    /\ tasks[i] = "inflight"
    /\ Cardinality({j \in 1 .. i - 1 : tasks[j] = "inflight"}) <= MaxOvertake

\* a variant of SegmentSettles: values are collected in the order the
\* requests complete, not in the order they were issued
SegmentSettlesInArrivalOrder(i, r) ==
    /\ pc = "gather"
    /\ MaySettle(i)
    /\ r # PlainReply => (faults < fault_limit /\ r \in fault_kinds)
    /\ faults' = IF r # PlainReply THEN faults + 1 ELSE faults
    /\ overtaken' = (overtaken \/ \E j \in 1 .. i - 1 : tasks[j] = "inflight")
    /\ tasks' = [tasks EXCEPT ![i] = "settled"]
    /\ replies' = [replies EXCEPT ![i] = Some(r)]
    /\ LET slot == Cardinality({j \in DOMAIN tasks : tasks[j] = "settled"}) + 1
       IN  results' = [results EXCEPT ![slot] = AnalyzeSegment(frames_info[i], r)]
    /\ UNCHANGED <<other_vars, input_vars, pc, err, scan_vars, frames_info, vision_posts,
                   report_vars>>

\* a variant of SegmentSettles: a request that fails cancels the requests
\* still pending (the behaviour of a task group, not of gather over
\* coroutines that catch their own exceptions)
SegmentSettlesCancelsSiblings(i, r) ==
    /\ pc = "gather"
    /\ MaySettle(i)
    /\ r # PlainReply => (faults < fault_limit /\ r \in fault_kinds)
    /\ faults' = IF r # PlainReply THEN faults + 1 ELSE faults
    /\ overtaken' = (overtaken \/ \E j \in 1 .. i - 1 : tasks[j] = "inflight")
    /\ tasks' = [j \in DOMAIN tasks |->
                    IF j = i \/ RequestFailed(r) THEN "settled" ELSE tasks[j]]
    /\ replies' = [replies EXCEPT ![i] = Some(r)]
    /\ results' = [results EXCEPT ![i] = AnalyzeSegment(frames_info[i], r)]
    /\ UNCHANGED <<other_vars, input_vars, pc, err, scan_vars, frames_info, vision_posts,
                   report_vars>>

\* a variant of SegmentSettles: a request that failed is posted once more
SegmentSettlesRetries(i, r) ==
    /\ pc = "gather"
    /\ MaySettle(i)
    /\ r # PlainReply => (faults < fault_limit /\ r \in fault_kinds)
    /\ faults' = IF r # PlainReply THEN faults + 1 ELSE faults
    /\ overtaken' = (overtaken \/ \E j \in 1 .. i - 1 : tasks[j] = "inflight")
    /\ IF RequestFailed(r) /\ vision_posts[i] < 2
       THEN /\ vision_posts' = [vision_posts EXCEPT ![i] = @ + 1]
            /\ UNCHANGED <<tasks, replies, results>>
       ELSE /\ tasks' = [tasks EXCEPT ![i] = "settled"]
            /\ replies' = [replies EXCEPT ![i] = Some(r)]
            /\ results' = [results EXCEPT ![i] = AnalyzeSegment(frames_info[i], r)]
            /\ UNCHANGED vision_posts
    /\ UNCHANGED <<other_vars, input_vars, pc, err, scan_vars, frames_info, report_vars>>

\* the reply to request i arrives (or the request fails); the coroutine
\* resumes and returns its value into slot i of gather's result
SegmentSettles(i, r) ==
    /\ pc = "gather"
    /\ MaySettle(i)
    /\ r # PlainReply => (faults < fault_limit /\ r \in fault_kinds)
    /\ faults' = IF r # PlainReply THEN faults + 1 ELSE faults
    /\ overtaken' = (overtaken \/ \E j \in 1 .. i - 1 : tasks[j] = "inflight")
    /\ tasks' = [tasks EXCEPT ![i] = "settled"]
    /\ replies' = [replies EXCEPT ![i] = Some(r)]
    /\ results' = [results EXCEPT ![i] = AnalyzeSegment(frames_info[i], r)]
    /\ UNCHANGED <<other_vars, input_vars, pc, err, scan_vars, frames_info, vision_posts,
                   report_vars>>

\* a variant of Join: the results are taken as soon as one request has
\* settled (asyncio.wait with FIRST_COMPLETED instead of gather)
JoinOnFirstCompleted ==
    /\ pc = "gather"
    /\ \E i \in DOMAIN tasks : tasks[i] = "settled"
    /\ LET segments == FilterSegments(results)
       IN  /\ segments_data' = segments
           /\ IF NothingToSummarise(segments)
              THEN /\ UNCHANGED <<summary_request, summary_posts>>
                   /\ final_report' = Some(NoDataReport)
                   /\ result' =
                        Some(AnalysisResult(frames_info, segments, NoDataReport))
                   /\ pc' = "done"
              ELSE /\ summary_request' = Some(segments)
                   /\ summary_posts' = summary_posts + 1
                   /\ UNCHANGED <<final_report, result>>
                   /\ pc' = "summary"
    /\ UNCHANGED <<other_vars, input_vars, err, scan_vars, gather_vars, summary_outcome>>

\* gather returns; failed segments are filtered out; the summary either
\* short-circuits (nothing to summarise) or issues the narrative request
Join ==
    /\ pc = "gather"
    /\ \A i \in DOMAIN tasks : tasks[i] = "settled"
    /\ LET segments == FilterSegments(results)
       IN  /\ segments_data' = segments
           /\ IF NothingToSummarise(segments)
              THEN /\ UNCHANGED <<summary_request, summary_posts>>
                   /\ final_report' = Some(NoDataReport)
                   /\ result' =
                        Some(AnalysisResult(frames_info, segments, NoDataReport))
                   /\ pc' = "done"
              ELSE /\ summary_request' = Some(segments)
                   /\ summary_posts' = summary_posts + 1
                   /\ UNCHANGED <<final_report, result>>
                   /\ pc' = "summary"
    /\ UNCHANGED <<other_vars, input_vars, err, scan_vars, gather_vars, summary_outcome>>

\* a variant of SummarySettles: a failed narrative request is posted again,
\* once
SummarySettlesRetries(ok) ==
    /\ pc = "summary"
    /\ IF ~ok /\ summary_posts < 2
       THEN /\ summary_posts' = summary_posts + 1
            /\ UNCHANGED <<pc, final_report, result, summary_outcome>>
       ELSE /\ LET report == IF ok THEN NarrativeReport ELSE FallbackReport
               IN  /\ final_report' = Some(report)
                   /\ result' =
                        Some(AnalysisResult(frames_info, segments_data, report))
            /\ summary_outcome' = IF ok THEN "ok" ELSE "failed"
            /\ pc' = "done"
            /\ UNCHANGED summary_posts
    /\ UNCHANGED <<other_vars, input_vars, err, scan_vars, gather_vars, segments_data,
                   summary_request>>

\* the narrative request settles: its text, or the fallback on any failure;
\* analyze assembles and returns the result
SummarySettles(ok) ==
    /\ pc = "summary"
    /\ LET report == IF ok THEN NarrativeReport ELSE FallbackReport
       IN  /\ final_report' = Some(report)
           /\ result' = Some(AnalysisResult(frames_info, segments_data, report))
    /\ summary_outcome' = IF ok THEN "ok" ELSE "failed"
    /\ pc' = "done"
    /\ UNCHANGED <<other_vars, input_vars, err, scan_vars, gather_vars, segments_data,
                   summary_request, summary_posts>>

Next ==
    \/ CheckPath
    \/ OpenVideo
    \/ ScanEnd
    \/ ScanSkip
    \/ ScanSample
    \/ GatherStart
    \/ \E i \in DOMAIN tasks, r \in NominalReplies \cup FaultReplies :
          SegmentSettles(i, r)
    \/ Join
    \/ \E ok \in BOOLEAN : SummarySettles(ok)

Spec == Init /\ [][Next]_vars

SpecMotion == InitMotion /\ [][Next]_vars

SpecCut == InitCut /\ [][Next]_vars

SpecTimeout == InitTimeout /\ [][Next]_vars

(***************************************************************************)
(* The perceptual hasher on its own: _dhash on a grayscale image, and      *)
(* _hamming_distance on a pair of hashes.                                  *)
(***************************************************************************)
analyzer_vars == <<input_vars, pc, err, scan_vars, gather_vars, report_vars>>

\* the variables a call of the hasher does not touch
not_hasher_vars == <<analyzer_vars, machine_vars, manager_vars, retry_vars>>

\* analyze is not running
AnalyzerOff ==
    /\ path_exists = FALSE
    /\ can_open = FALSE
    /\ fps = 0
    /\ nframes = 0
    /\ video = <<>>
    /\ fault_limit = 0
    /\ fault_kinds = {}
    /\ pc = "off"
    /\ err = "none"
    /\ frame_idx = 0
    /\ prev_hash = None
    /\ curr_hash = None
    /\ is_significant = FALSE
    /\ last_selected_time = [n |-> InitialLastSelected, d |-> 1]
    /\ selected_frames = <<>>
    /\ frames_info = <<>>
    /\ tasks = <<>>
    /\ replies = <<>>
    /\ results = <<>>
    /\ faults = 0
    /\ overtaken = FALSE
    /\ vision_posts = <<>>
    /\ segments_data = <<>>
    /\ summary_request = None
    /\ summary_posts = 0
    /\ summary_outcome = "none"
    /\ final_report = None
    /\ result = None

Levels == 0 .. MaxLevel

\* every pixel at level v
UniformGrid(v) == [i \in 0 .. DhashRows - 1 |-> [j \in 0 .. DhashCols |-> v]]

\* level v everywhere but at row r, column c, which is at level w
MarkedGrid(v, r, c, w) ==
    [i \in 0 .. DhashRows - 1 |->
        [j \in 0 .. DhashCols |-> IF i = r /\ j = c THEN w ELSE v]]

\* every row falls (down = TRUE) or rises from left to right
RampGrid(down) ==
    [i \in 0 .. DhashRows - 1 |->
        [j \in 0 .. DhashCols |-> IF down THEN DhashCols - j ELSE j]]

GridInputs ==
    { MarkedGrid(v, r, c, w) :
        v \in Levels, r \in 0 .. DhashRows - 1, c \in 0 .. DhashCols, w \in Levels }
    \cup { RampGrid(down) : down \in BOOLEAN }

\* bit positions at the ends of the four digits of an int
SamplePositions == {0, 15, 16, 31, 32, 47, 48, 63}

RECURSIVE SumOfPowers(_)
SumOfPowers(exponents) ==
    IF exponents = {}
    THEN 0
    ELSE LET e == CHOOSE x \in exponents : TRUE
         IN  2 ^ e + SumOfPowers(exponents \ {e})

\* the int whose 1 bits are at the positions in bits
IntWithBits(bits) ==
    [k \in 1 .. NumLimbs |->
        SumOfPowers({p % LimbBits : p \in {q \in bits : q \div LimbBits = NumLimbs - k}})]

\* ints with few 1 bits, and ints with few 0 bits
HashInputs ==
    LET few == {b \in SUBSET SamplePositions : Cardinality(b) <= MaxBitsSet}
    IN  {IntWithBits(b) : b \in few}
        \cup {IntWithBits((0 .. HashBits - 1) \ b) : b \in few}

\* either _dhash is called on an image, or _hamming_distance on two hashes
InitHasher ==
    /\ AnalyzerOff
    /\ MachineOff
    /\ ManagerOff
    /\ RetryOff
    /\ row = 0
    /\ col = 0
    /\ hash_str = <<>>
    /\ hash_out = None
    /\ distance = None
    /\ \/ /\ hpc = "dhash"
          /\ gray \in GridInputs
          /\ hash1 = <<>>
          /\ hash2 = <<>>
       \/ /\ hpc = "hamming"
          /\ gray = <<>>
          /\ hash1 \in HashInputs
          /\ hash2 \in HashInputs

\* one pass of the inner loop: a character is appended to hash_str
DhashCompare ==
    /\ hpc = "dhash"
    /\ row < DhashRows
    /\ hash_str' = Append(hash_str, DhashBit(gray, row, col))
    /\ col' = IF col + 1 < DhashCols THEN col + 1 ELSE 0
    /\ row' = IF col + 1 < DhashCols THEN row ELSE row + 1
    /\ UNCHANGED <<not_hasher_vars, gray, hash_out, hash1, hash2, distance, hpc>>

\* return int(hash_str, 2)
DhashReturn ==
    /\ hpc = "dhash"
    /\ row = DhashRows
    /\ hash_out' = Some(IntOfBinary(hash_str))
    /\ hpc' = "dhash_done"
    /\ UNCHANGED <<not_hasher_vars, gray, row, col, hash_str, hash1, hash2, distance>>

\* return bin(hash1 ^ hash2).count('1')
HammingDistanceCall ==
    /\ hpc = "hamming"
    /\ distance' = Some(hamming_distance(hash1, hash2))
    /\ hpc' = "hamming_done"
    /\ UNCHANGED <<not_hasher_vars, gray, row, col, hash_str, hash_out, hash1, hash2>>

NextHasher ==
    \/ DhashCompare
    \/ DhashReturn
    \/ HammingDistanceCall

SpecHasher == InitHasher /\ [][NextHasher]_vars

(***************************************************************************)
(* state_machine.py: the conversation state machine.                       *)
(***************************************************************************)
ConversationState == {"idle", "listening", "processing", "speaking"}

StateEvent ==
    {"start_listening", "audio_received", "processing_complete",
     "speaking_complete", "user_interrupt", "error", "reset"}

\* a transition table as a set of <<state, event, target>>, read as the
\* dict of dicts it stands for
TableOf(triples) ==
    [st \in ConversationState |->
        [ev \in {t[2] : t \in {u \in triples : u[1] = st}} |->
            (CHOOSE t \in triples : t[1] = st /\ t[2] = ev)[3]]]

\* a variant of VALID_TRANSITIONS: SPEAKING has no entry for ERROR
ValidTransitionsNoErrorWhileSpeaking ==
    TableOf({ <<"idle", "start_listening", "listening">>,
              <<"idle", "reset", "idle">>,
              <<"listening", "audio_received", "processing">>,
              <<"listening", "error", "idle">>,
              <<"listening", "reset", "idle">>,
              <<"processing", "processing_complete", "speaking">>,
              <<"processing", "error", "idle">>,
              <<"processing", "reset", "idle">>,
              <<"speaking", "speaking_complete", "listening">>,
              <<"speaking", "user_interrupt", "listening">>,
              <<"speaking", "reset", "idle">> })

VALID_TRANSITIONS ==
    TableOf({ <<"idle", "start_listening", "listening">>,
              <<"idle", "reset", "idle">>,
              <<"listening", "audio_received", "processing">>,
              <<"listening", "error", "idle">>,
              <<"listening", "reset", "idle">>,
              <<"processing", "processing_complete", "speaking">>,
              <<"processing", "error", "idle">>,
              <<"processing", "reset", "idle">>,
              <<"speaking", "speaking_complete", "listening">>,
              <<"speaking", "user_interrupt", "listening">>,
              <<"speaking", "error", "idle">>,
              <<"speaking", "reset", "idle">> })

\* a variant of NewState: an event that is not listed leads to IDLE
NewStateDefaultsToIdle(state, event) ==
    LET transitions == VALID_TRANSITIONS[state]
    IN  IF event \in DOMAIN transitions THEN Some(transitions[event]) ELSE Some("idle")

\* transitions = VALID_TRANSITIONS.get(current_state, {});
\* new_state = transitions.get(event)
NewState(state, event) ==
    LET transitions == VALID_TRANSITIONS[state]
    IN  IF event \in DOMAIN transitions THEN Some(transitions[event]) ELSE None

\* for listener in self._listeners: listener(old_state, new_state)
NotifyAll(old_state, new_state) ==
    [k \in 1 .. Len(listeners) |-> <<listeners[k], old_state, new_state>>]

\* what the body of transition(event) does to the state machine
TransitionBody(event) ==
    LET new_state == NewState(current_state, event)
    IN  /\ state_before' = current_state
        /\ IF new_state = None
           THEN /\ notified' = <<>>
                /\ UNCHANGED current_state
           ELSE /\ current_state' = new_state[1]
                /\ notified' = NotifyAll(current_state, new_state[1])
        /\ UNCHANGED listeners

\* the effect of transition(event), with the value it returns
DoTransition(event) ==
    /\ TransitionBody(event)
    /\ last_call' = <<"transition", event>>
    /\ last_return' =
          IF NewState(current_state, event) = None THEN "False" ELSE "True"

\* the effect of force_state(state) on the state machine
DoForceState(state) ==
    /\ last_call' = <<"force_state", state>>
    /\ state_before' = current_state
    /\ current_state' = state
    /\ notified' = NotifyAll(current_state, state)
    /\ last_return' = "None"
    /\ UNCHANGED listeners

\* the variables the state machine's own operations do not touch
not_machine_vars == <<analyzer_vars, hasher_vars, manager_vars, retry_vars>>

Listeners == {"a", "b"}

\* list.remove(x): the first occurrence goes
RECURSIVE RemoveFirst(_, _)
RemoveFirst(list, x) ==
    IF Len(list) = 0 THEN list
    ELSE IF Head(list) = x THEN Tail(list)
    ELSE <<Head(list)>> \o RemoveFirst(Tail(list), x)

\* a StateMachine() as the dataclass constructs it
InitMachine ==
    /\ AnalyzerOff
    /\ HasherOff
    /\ ManagerOff
    /\ RetryOff
    /\ MachineOff

Transition(event) ==
    /\ DoTransition(event)
    /\ UNCHANGED not_machine_vars

\* reset(): self.transition(StateEvent.RESET), the result dropped
Reset ==
    /\ TransitionBody("reset")
    /\ last_call' = <<"reset">>
    /\ last_return' = "None"
    /\ UNCHANGED not_machine_vars

ForceState(state) ==
    /\ DoForceState(state)
    /\ UNCHANGED not_machine_vars

AddListener(listener) ==
    /\ Len(listeners) < MaxListeners
    /\ listeners' = Append(listeners, listener)
    /\ last_call' = <<"add_listener", listener>>
    /\ state_before' = current_state
    /\ notified' = <<>>
    /\ last_return' = "None"
    /\ UNCHANGED <<current_state, not_machine_vars>>

RemoveListener(listener) ==
    /\ listeners' = RemoveFirst(listeners, listener)
    /\ last_call' = <<"remove_listener", listener>>
    /\ state_before' = current_state
    /\ notified' = <<>>
    /\ last_return' = "None"
    /\ UNCHANGED <<current_state, not_machine_vars>>

NextMachine ==
    \/ \E event \in StateEvent : Transition(event)
    \/ Reset
    \/ \E state \in ConversationState : ForceState(state)
    \/ \E listener \in Listeners : AddListener(listener)
    \/ \E listener \in Listeners : RemoveListener(listener)

SpecMachine == InitMachine /\ [][NextMachine]_vars

(***************************************************************************)
(* conversation_manager.py: process_audio and start_conversation, two      *)
(* calls on one session.  Each action runs one async generator from the    *)
(* point where it is suspended (a yield, or an await on a client stream)   *)
(* to the next one.                                                        *)
(***************************************************************************)
\* the variables a conversation call does not touch
not_conversation_vars == <<analyzer_vars, hasher_vars, retry_vars>>

\* the text chunks a client stream delivers: the clients drop empty ones
ChunkTexts == {"hi"}

\* "".join(chunks)
RECURSIVE JoinChunks(_)
JoinChunks(chunks) ==
    IF chunks = <<>> THEN "" ELSE Head(chunks) \o JoinChunks(Tail(chunks))

\* ConversationEvent(type=STATE_CHANGE, data={"state": state})
StateChange(state) == <<"state_change", state>>

\* ConversationEvent(type=..., data={"text": text})
TextEvent(type, text) == <<type, text>>

AudioEvent == <<"audio", "chunk">>
DoneEvent == <<"done", "">>
ErrorEvent == <<"error", "unknown_error">>

\* yield event
Yield(c, event) == events' = [events EXCEPT ![c] = Append(@, event)]

\* session.add_message(role, content), by call c
AddMessage(c, role, content) ==
    messages' = Append(messages, [role |-> role, content |-> content, call |-> c])

MoveTo(c, label) == cpc' = [cpc EXCEPT ![c] = label]

\* a variant of Except: the failure is handled but no ERROR is yielded
ExceptUnreported(c, why) ==
    /\ failure' = [failure EXCEPT ![c] = why]
    /\ DoTransition("error")
    /\ UNCHANGED events
    /\ MoveTo(c, "error_yielded")

\* except Exception: state_machine.transition(StateEvent.ERROR); yield ERROR
Except(c, why) ==
    /\ failure' = [failure EXCEPT ![c] = why]
    /\ DoTransition("error")
    /\ Yield(c, ErrorEvent)
    /\ MoveTo(c, "error_yielded")

\* a session as an earlier call left it: its state machine in any state
InitConversation ==
    /\ AnalyzerOff
    /\ HasherOff
    /\ ManagerOff
    /\ RetryOff
    /\ current_state \in ConversationState
    /\ listeners = <<>>
    /\ notified = <<>>
    /\ last_call = <<"none">>
    /\ last_return = "None"
    /\ state_before = current_state

\* process_audio up to its first yield
ProcessAudioStart(c) ==
    /\ cpc[c] = "unstarted"
    /\ call_kind' = [call_kind EXCEPT ![c] = "process_audio"]
    /\ start_state' = [start_state EXCEPT ![c] = current_state]
    /\ DoTransition("audio_received")
    /\ Yield(c, StateChange("processing"))
    /\ MoveTo(c, "asr")
    /\ UNCHANGED <<messages, transcript_chunks, response_chunks, audio_chunks,
                   failure, not_conversation_vars>>

\* the ASR stream delivers a chunk
AsrChunk(c, text) ==
    /\ cpc[c] = "asr"
    /\ Len(transcript_chunks[c]) < MaxChunks
    /\ transcript_chunks' = [transcript_chunks EXCEPT ![c] = Append(@, text)]
    /\ Yield(c, TextEvent("transcript", text))
    /\ UNCHANGED <<messages, call_kind, cpc, start_state, response_chunks,
                   audio_chunks, failure, machine_vars, not_conversation_vars>>

\* the ASR stream ends
AsrEnd(c) ==
    /\ cpc[c] = "asr"
    /\ LET transcript == JoinChunks(transcript_chunks[c])
       IN  IF transcript = ""
           THEN /\ Except(c, "empty_transcript")
                /\ UNCHANGED messages
           ELSE /\ AddMessage(c, "user", transcript)
                /\ MoveTo(c, "llm")
                /\ UNCHANGED <<failure, events, machine_vars>>
    /\ UNCHANGED <<call_kind, start_state, transcript_chunks, response_chunks,
                   audio_chunks, not_conversation_vars>>

\* the ASR stream raises
AsrFails(c) ==
    /\ cpc[c] = "asr"
    /\ Except(c, "asr")
    /\ UNCHANGED <<messages, call_kind, start_state, transcript_chunks,
                   response_chunks, audio_chunks, not_conversation_vars>>

\* the LLM stream delivers a chunk
LlmChunk(c, text) ==
    /\ cpc[c] = "llm"
    /\ Len(response_chunks[c]) < MaxChunks
    /\ response_chunks' = [response_chunks EXCEPT ![c] = Append(@, text)]
    /\ Yield(c, TextEvent("response", text))
    /\ UNCHANGED <<messages, call_kind, cpc, start_state, transcript_chunks,
                   audio_chunks, failure, machine_vars, not_conversation_vars>>

\* a variant of LlmEnd: the move to SPEAKING is not announced
LlmEndUnannounced(c) ==
    /\ cpc[c] = "llm"
    /\ LET response == JoinChunks(response_chunks[c])
       IN  IF response = ""
           THEN /\ Except(c, "empty_response")
                /\ UNCHANGED messages
           ELSE /\ AddMessage(c, "assistant", response)
                /\ DoTransition("processing_complete")
                /\ MoveTo(c, "tts")
                /\ UNCHANGED <<failure, events>>
    /\ UNCHANGED <<call_kind, start_state, transcript_chunks, response_chunks,
                   audio_chunks, not_conversation_vars>>

\* the LLM stream ends
LlmEnd(c) ==
    /\ cpc[c] = "llm"
    /\ LET response == JoinChunks(response_chunks[c])
       IN  IF response = ""
           THEN /\ Except(c, "empty_response")
                /\ UNCHANGED messages
           ELSE /\ AddMessage(c, "assistant", response)
                /\ DoTransition("processing_complete")
                /\ Yield(c, StateChange("speaking"))
                /\ MoveTo(c, "tts")
                /\ UNCHANGED failure
    /\ UNCHANGED <<call_kind, start_state, transcript_chunks, response_chunks,
                   audio_chunks, not_conversation_vars>>

\* the LLM stream raises
LlmFails(c) ==
    /\ cpc[c] = "llm"
    /\ Except(c, "llm")
    /\ UNCHANGED <<messages, call_kind, start_state, transcript_chunks,
                   response_chunks, audio_chunks, not_conversation_vars>>

\* start_conversation up to its first yield
StartConversation(c) ==
    /\ cpc[c] = "unstarted"
    /\ call_kind' = [call_kind EXCEPT ![c] = "start_conversation"]
    /\ start_state' = [start_state EXCEPT ![c] = current_state]
    /\ AddMessage(c, "assistant", "hello")
    /\ DoForceState("speaking")
    /\ Yield(c, StateChange("speaking"))
    /\ MoveTo(c, "greeting")
    /\ UNCHANGED <<transcript_chunks, response_chunks, audio_chunks, failure,
                   not_conversation_vars>>

\* start_conversation yields the greeting as its RESPONSE
YieldGreeting(c) ==
    /\ cpc[c] = "greeting"
    /\ Yield(c, TextEvent("response", "hello"))
    /\ MoveTo(c, "tts")
    /\ UNCHANGED <<messages, call_kind, start_state, transcript_chunks,
                   response_chunks, audio_chunks, failure, machine_vars,
                   not_conversation_vars>>

\* the TTS stream delivers a chunk
TtsChunk(c) ==
    /\ cpc[c] = "tts"
    /\ audio_chunks[c] < MaxChunks
    /\ audio_chunks' = [audio_chunks EXCEPT ![c] = @ + 1]
    /\ Yield(c, AudioEvent)
    /\ UNCHANGED <<messages, call_kind, cpc, start_state, transcript_chunks,
                   response_chunks, failure, machine_vars, not_conversation_vars>>

\* the TTS stream ends
TtsEnd(c) ==
    /\ cpc[c] = "tts"
    /\ DoTransition("speaking_complete")
    /\ Yield(c, StateChange("listening"))
    /\ MoveTo(c, "done_pending")
    /\ UNCHANGED <<messages, call_kind, start_state, transcript_chunks,
                   response_chunks, audio_chunks, failure, not_conversation_vars>>

\* the TTS stream raises
TtsFails(c) ==
    /\ cpc[c] = "tts"
    /\ Except(c, "tts")
    /\ UNCHANGED <<messages, call_kind, start_state, transcript_chunks,
                   response_chunks, audio_chunks, not_conversation_vars>>

\* yield DONE
YieldDone(c) ==
    /\ cpc[c] = "done_pending"
    /\ Yield(c, DoneEvent)
    /\ MoveTo(c, "done_yielded")
    /\ UNCHANGED <<messages, call_kind, start_state, transcript_chunks,
                   response_chunks, audio_chunks, failure, machine_vars,
                   not_conversation_vars>>

\* resumed after its last yield, the generator returns
Finish(c) ==
    /\ cpc[c] \in {"done_yielded", "error_yielded"}
    /\ MoveTo(c, "finished")
    /\ UNCHANGED <<messages, call_kind, start_state, transcript_chunks,
                   response_chunks, audio_chunks, failure, events, machine_vars,
                   not_conversation_vars>>

NextConversation ==
    \/ \E c \in Calls : ProcessAudioStart(c)
    \/ \E c \in Calls, text \in ChunkTexts : AsrChunk(c, text)
    \/ \E c \in Calls : AsrEnd(c)
    \/ \E c \in Calls : AsrFails(c)
    \/ \E c \in Calls, text \in ChunkTexts : LlmChunk(c, text)
    \/ \E c \in Calls : LlmEnd(c)
    \/ \E c \in Calls : LlmFails(c)
    \/ \E c \in Calls : StartConversation(c)
    \/ \E c \in Calls : YieldGreeting(c)
    \/ \E c \in Calls : TtsChunk(c)
    \/ \E c \in Calls : TtsEnd(c)
    \/ \E c \in Calls : TtsFails(c)
    \/ \E c \in Calls : YieldDone(c)
    \/ \E c \in Calls : Finish(c)

SpecConversation == InitConversation /\ [][NextConversation]_vars

(***************************************************************************)
(* Properties of the keyframe selector.                                    *)
(***************************************************************************)
\* the scan has returned its list (selected_frames holds the returned list)
Returned == pc \in {"extracted", "gather", "summary", "done"}

TimeOf(k) == selected_frames[k].timestamp_sec

\* C1: after every sampled frame has been processed, prev_hash is that
\* frame's hash (curr_hash), whether or not the frame was significant and
\* whether it was accepted or suppressed by the gap guard.
C1_ReferenceAlwaysAdvances ==
    (pc # "raised" /\ curr_hash # None) => prev_hash = curr_hash

\* C2: the keyframe list is strictly ascending in timestamp_sec and
\* consecutive entries are at least 1.0 s apart, in the returned list and
\* at every point of the scan that builds it.
C2_AscendingAndSpaced ==
    \A k \in 1 .. Len(selected_frames) - 1 :
        /\ FracLT(TimeOf(k), TimeOf(k + 1))
        /\ FracGE(FracSub(TimeOf(k + 1), TimeOf(k)), MinGap)

\* a returned list whose second keyframe is exactly 1.0 s after the first,
\* from a video sampled every 0.5 s with a significant frame in between
C2_Witness ==
    /\ pc = "extracted"
    /\ fps = 6
    /\ Len(selected_frames) >= 2
    /\ FracEQ(FracSub(TimeOf(2), TimeOf(1)), MinGap)
    /\ IsSignificant(Some(video[1]), video[2])

\* the video of Scenario B: static except for changes of more than 5 bits
\* at the sampled frames at 2.0 s and 2.3 s (sampled frame k is at (k-1)/10 s
\* when fps = 30), and long enough to show both
IsScenarioB ==
    /\ fps = 30
    /\ Len(video) >= 24
    /\ \A k \in 2 .. Len(video) :
          IF k \in {21, 24}
          THEN HammingDistance(video[k - 1], video[k]) > HashThreshold
          ELSE video[k] = video[k - 1]

\* C3: in Scenario B the change at 2.0 s is accepted and the change at
\* 2.3 s produces no keyframe: the returned list has a keyframe at 2.0 s
\* and none later.
C3_ScenarioB ==
    (Returned /\ IsScenarioB) =>
        /\ \E k \in 1 .. Len(selected_frames) : FracEQ(TimeOf(k), [n |-> 2, d |-> 1])
        /\ \A k \in 1 .. Len(selected_frames) : ~FracLT([n |-> 2, d |-> 1], TimeOf(k))

\* C4: the returned keyframe list never has more than 20 entries.
C4_AtMostTwenty ==
    Returned => (Len(selected_frames) <= 20 /\ Len(frames_info) <= 20)

\* a returned list of 20 taken from a scan that accepted a later frame too
C4_Witness ==
    /\ pc = "extracted"
    /\ Len(selected_frames) = 20
    /\ FracLT(TimeOf(20), last_selected_time)

\* C5: during the scan the accepted list only grows, by appending the
\* frame just accepted; the returned list is the first 20 of it when it is
\* longer than 20 (and all of it otherwise): a prefix in arrival order.
C5_FirstTwentyInArrivalOrder ==
    [][ /\ (pc = "scan" /\ pc' = "scan") =>
             \/ selected_frames' = selected_frames
             \/ /\ Len(selected_frames') = Len(selected_frames) + 1
                /\ SubSeq(selected_frames', 1, Len(selected_frames)) = selected_frames
                /\ selected_frames'[Len(selected_frames')].image_base64 = frame_idx
        /\ (pc = "scan" /\ pc' = "extracted") =>
             /\ Len(selected_frames') =
                   IF Len(selected_frames) > 20 THEN 20 ELSE Len(selected_frames)
             /\ \A k \in 1 .. Len(selected_frames') :
                   selected_frames'[k] = selected_frames[k]
      ]_vars

\* a returned list of 20 from a scan that accepted 22: two were dropped
C5_Witness ==
    /\ pc = "extracted"
    /\ Len(selected_frames) = 20
    /\ last_selected_time.n = TimeOf(20).n + 2 * check_interval
    /\ \A k \in 1 .. 20 : selected_frames[k].image_base64 = check_interval * (k - 1)

\* every sampled frame of the video has the same hash
IsStatic == \A k \in 1 .. Len(video) : video[k] = video[1]

\* the first keyframe is frame 0, at time 0, with change_score 0
BootstrapIsFirst ==
    /\ Len(selected_frames) >= 1
    /\ selected_frames[1].image_base64 = 0
    /\ FracEQ(TimeOf(1), Zero)
    /\ selected_frames[1].change_score = 0

\* C6: for a video that opens and has a frame, once frame 0 has been
\* hashed it has been accepted and is the first entry of the keyframe list.
C6_BootstrapAccepted ==
    (nframes >= 1 /\ curr_hash # None) => BootstrapIsFirst

\* C6, for the frame rates other than 0: the same statement
C6_BootstrapAcceptedAtPositiveRate ==
    (nframes >= 1 /\ curr_hash # None /\ fps > 0) => BootstrapIsFirst

\* C7: for a static video with a frame, _extract_keyframes ends by
\* returning exactly one keyframe, the bootstrap frame at time 0.
C7_StaticVideoOneKeyframe ==
    (can_open /\ nframes >= 1 /\ IsStatic /\ pc \notin {"start", "open", "scan"}) =>
        (Returned /\ Len(selected_frames) = 1 /\ BootstrapIsFirst)

\* C7, for the frame rates other than 0: the same statement
C7_StaticVideoOneKeyframeAtPositiveRate ==
    (can_open /\ nframes >= 1 /\ IsStatic /\ fps > 0
        /\ pc \notin {"start", "open", "scan"}) =>
        (Returned /\ Len(selected_frames) = 1 /\ BootstrapIsFirst)

(***************************************************************************)
(* Properties of the segment analyzer.                                     *)
(***************************************************************************)
\* gather has returned and the timeline (segments_data) is formed
Joined == pc \in {"summary", "done"}

ReplyOf(i) == replies[i][1]

\* the request got a reply that parses to a JSON object
Succeeded(r) == ~RequestFailed(r) /\ r.json = "object"

\* the timeline holds an observation stamped with keyframe i's mm:ss
\* (keyframes are at least 1 s apart, so their mm:ss stamps are distinct)
InTimeline(i) ==
    \E k \in 1 .. Len(segments_data) :
        segments_data[k].timestamp = frames_info[i].timestamp_fmt

\* C8: a vision request that fails (network error, timeout, non-2xx status,
\* no content, malformed JSON) makes _analyze_segment return None, nothing
\* is raised to analyze, that keyframe has no observation in the timeline,
\* and every keyframe whose request succeeded has one.
C8_FailureDropsOnlyThatSegment ==
    /\ pc \in {"gather", "summary", "done"} => err = "none"
    /\ pc = "gather" =>
          \A i \in DOMAIN tasks :
              (tasks[i] = "settled" /\ RequestFailed(ReplyOf(i))) => results[i] = None
    /\ Joined =>
          \A i \in 1 .. Len(frames_info) :
              /\ RequestFailed(ReplyOf(i)) => ~InTimeline(i)
              /\ Succeeded(ReplyOf(i)) => InTimeline(i)

\* three keyframes, the second one's request failed, the other two are in
\* the returned timeline
C8_Witness ==
    /\ pc = "done"
    /\ Len(frames_info) = 3
    /\ RequestFailed(ReplyOf(2))
    /\ Succeeded(ReplyOf(1)) /\ Succeeded(ReplyOf(3))
    /\ Len(result[1].timeline) = 2
    /\ InTimeline(1) /\ InTimeline(3) /\ ~InTimeline(2)

\* the reply is a JSON object that lacks one of the expected fields
LacksField(r) == Succeeded(r) /\ ~(Fields \subseteq DOMAIN r.obj)

\* C9: a reply that parses to a JSON object lacking one of scene, objects,
\* action, ocr leaves no observation for its keyframe in the timeline.
C9_MissingFieldDropped ==
    Joined =>
        \A i \in 1 .. Len(frames_info) : LacksField(ReplyOf(i)) => ~InTimeline(i)

\* the keyframes whose request succeeded, in keyframe order
SucceededIndices ==
    SelectSeq([i \in 1 .. Len(frames_info) |-> i], LAMBDA i : Succeeded(ReplyOf(i)))

\* C10: the timeline is the order-preserving subsequence of the keyframe
\* list at the keyframes whose request succeeded: one observation for each,
\* in keyframe order, carrying the reply's fields and the keyframe's stamp.
C10_TimelineInKeyframeOrder ==
    Joined =>
        /\ Len(segments_data) = Len(SucceededIndices)
        /\ \A k \in 1 .. Len(SucceededIndices) :
              LET i == SucceededIndices[k]
              IN  /\ segments_data[k].timestamp = frames_info[i].timestamp_fmt
                  /\ \A f \in DOMAIN ReplyOf(i).obj \ {"timestamp"} :
                        /\ f \in DOMAIN segments_data[k]
                        /\ segments_data[k][f] = ReplyOf(i).obj[f]

\* a returned timeline of at least two observations with one keyframe
\* dropped, from a run where a reply overtook an earlier request
C10_Witness ==
    /\ pc = "done"
    /\ overtaken
    /\ Len(result[1].timeline) >= 2
    /\ Len(result[1].timeline) < Len(frames_info)
    /\ Succeeded(ReplyOf(1)) /\ Succeeded(ReplyOf(Len(frames_info)))

\* the reply is an observation that already carries a "timestamp" of its own
CarriesOwnTimestamp(r) == Succeeded(r) /\ "timestamp" \in DOMAIN r.obj

\* C11: every observation carries the mm:ss stamp of the keyframe it was
\* made from, both as _analyze_segment returns it and in the timeline, also
\* when the vision reply itself has a "timestamp" field with another value.
C11_TimestampIsKeyframeStamp ==
    /\ pc \in {"gather", "summary", "done"} =>
          \A i \in DOMAIN results :
              results[i] # None =>
                  results[i][1].timestamp = frames_info[i].timestamp_fmt
    /\ Joined =>
          \A k \in 1 .. Len(segments_data) :
              /\ segments_data[k].timestamp =
                     frames_info[SucceededIndices[k]].timestamp_fmt
              /\ segments_data[k].timestamp # ForeignTimestamp

\* a returned timeline with the observation of a reply that had its own,
\* different "timestamp"
C11_Witness ==
    /\ pc = "done"
    /\ \E i \in 1 .. Len(frames_info) :
          /\ CarriesOwnTimestamp(ReplyOf(i))
          /\ ReplyOf(i).obj["timestamp"] # frames_info[i].timestamp_fmt
          /\ results[i] # None
          /\ \E k \in 1 .. Len(result[1].timeline) :
                result[1].timeline[k] = results[i][1]

(***************************************************************************)
(* Properties of analyze: fan-out, join, report and result.                *)
(***************************************************************************)
\* the narrative request has been issued and has not settled yet
NarrativeInFlight == pc = "summary"

VisionPending(i) == tasks[i] = "inflight"

\* C12: the narrative request is issued only after every vision request
\* has settled: while one is pending no narrative request has been made,
\* and none is pending while a narrative request is in flight or after.
C12_NarrativeAfterAllVisionSettled ==
    /\ (\E i \in DOMAIN tasks : VisionPending(i)) =>
          /\ ~NarrativeInFlight
          /\ summary_posts = 0
          /\ summary_request = None
    /\ (NarrativeInFlight \/ summary_posts > 0) =>
          \A i \in DOMAIN tasks : tasks[i] = "settled" /\ replies[i] # None

\* the narrative request in flight after three vision requests settled,
\* one of them out of issue order
C12_Witness ==
    /\ NarrativeInFlight
    /\ summary_posts = 1
    /\ Len(frames_info) = 3
    /\ overtaken
    /\ \A i \in DOMAIN tasks : tasks[i] = "settled"

\* C13: a vision request that fails or times out neither cancels nor stops
\* a sibling: each step of the fan-out settles one request only, a request
\* leaves the pending state only by settling with its own reply and the
\* value _analyze_segment makes of it, settled requests keep their value,
\* and the join happens with every request settled.
C13_FailureSparesSiblings ==
    [][ pc = "gather" =>
          /\ Cardinality({j \in DOMAIN tasks : tasks'[j] # tasks[j]}) <= 1
          /\ \A j \in DOMAIN tasks :
                /\ (tasks[j] = "inflight" /\ tasks'[j] # "inflight") =>
                      /\ tasks'[j] = "settled"
                      /\ replies'[j] # None
                      /\ results'[j] = AnalyzeSegment(frames_info[j], replies'[j][1])
                /\ tasks[j] = "settled" =>
                      /\ tasks'[j] = "settled"
                      /\ replies'[j] = replies[j]
                      /\ results'[j] = results[j]
          /\ pc' # "gather" =>
                \A j \in DOMAIN tasks : tasks[j] = "settled" /\ replies[j] # None
      ]_vars

\* the first of three requests timed out, the second and third settled
\* after it, in issue order, and their observations are in the result
C13_Witness ==
    /\ pc = "done"
    /\ Len(frames_info) = 3
    /\ ~overtaken
    /\ ReplyOf(1) = Timeout
    /\ results[1] = None
    /\ Succeeded(ReplyOf(2)) /\ Succeeded(ReplyOf(3))
    /\ result[1].timeline = <<results[2][1], results[3][1]>>

\* no vision request of the run produced an observation
AllVisionFailed == \A i \in 1 .. Len(frames_info) : ~Succeeded(ReplyOf(i))

C15_OneNarrativeRequestWithFallback ==
    /\ summary_posts <= 1
    /\ (Joined /\ Len(segments_data) > 0) =>
          /\ summary_posts = 1
          /\ summary_request = Some(segments_data)
          /\ err = "none"
    /\ (pc = "done" /\ Len(segments_data) > 0) =>
          /\ summary_outcome \in {"ok", "failed"}
          /\ result # None
          /\ result[1].timeline = segments_data
          /\ result[1].report = final_report[1]
          /\ summary_outcome = "failed" => final_report = Some(FallbackReport)
          /\ summary_outcome = "ok" => final_report = Some(NarrativeReport)

\* analyze returned after the narrative request for a timeline of two or
\* more observations failed
C15_Witness ==
    /\ pc = "done"
    /\ summary_outcome = "failed"
    /\ summary_posts = 1
    /\ Len(result[1].timeline) >= 2
    /\ result[1].report = FallbackReport

\* analyze has ended, by returning or by raising
Ended == pc \in {"done", "raised"}

\* the value analyze returned has the three parts of an analysis result
WellFormed(res) ==
    /\ DOMAIN res = {"file_info", "timeline", "report"}
    /\ DOMAIN res.file_info = {"duration_sec"}
    /\ res.timeline = segments_data
    /\ res.report \in {NoDataReport, FallbackReport, NarrativeReport}

\* C16: for a video that could be opened, analyze ends by returning a
\* well-formed result whatever the vision and narrative requests did; the
\* only failure it ever raises is the one for a missing or unopenable video.
C16_OnlyDecodeFailureRaised ==
    /\ err \in {"none", "FileNotFoundError", "ValueError"}
    /\ err # "none" => ~(path_exists /\ can_open)
    /\ (Ended /\ path_exists /\ can_open) =>
          /\ pc = "done"
          /\ result # None
          /\ WellFormed(result[1])

\* C16, for the frame rates other than 0: the same statement
C16_OnlyDecodeFailureRaisedAtPositiveRate ==
    fps > 0 =>
        /\ err \in {"none", "FileNotFoundError", "ValueError"}
        /\ err # "none" => ~(path_exists /\ can_open)
        /\ (Ended /\ path_exists /\ can_open) =>
              /\ pc = "done"
              /\ result # None
              /\ WellFormed(result[1])

\* C17: if the video file is missing or cannot be opened, analyze raises
\* (FileNotFoundError, resp. ValueError), returns no result, and never
\* issues a vision or a narrative request.
C17_NoRequestWithoutVideo ==
    (~path_exists \/ ~can_open) =>
        /\ pc \in {"start", "open", "raised"}
        /\ ~path_exists => pc # "open"
        /\ pc = "raised" =>
              err = IF path_exists THEN "ValueError" ELSE "FileNotFoundError"
        /\ pc # "raised" => err = "none"
        /\ result = None
        /\ final_report = None
        /\ vision_posts = <<>>
        /\ summary_posts = 0

\* analyze has raised for a file that exists and does not open as a video
C17_Witness ==
    /\ pc = "raised"
    /\ path_exists /\ ~can_open
    /\ err = "ValueError"
    /\ result = None

\* C18: the result's duration_sec is the timestamp_sec of the last keyframe
\* of the list _extract_keyframes returned (the list after the hard cap),
\* whether or not the vision request of that keyframe succeeded, and 0 when
\* there is no keyframe.
C18_DurationIsLastKeyframe ==
    pc = "done" =>
        /\ frames_info = selected_frames
        /\ Len(frames_info) <= HardCap
        /\ result[1].file_info.duration_sec =
              IF Len(frames_info) = 0
              THEN Zero
              ELSE frames_info[Len(frames_info)].timestamp_sec

\* a result for a video with more significant frames than the cap keeps,
\* the request of the twentieth keyframe timed out: the duration is that
\* keyframe's time, 19 s
C18_Witness ==
    /\ pc = "done"
    /\ nframes > check_interval * HardCap
    /\ Len(frames_info) = HardCap
    /\ ReplyOf(HardCap) = Timeout
    /\ Len(result[1].timeline) = HardCap - 1
    /\ result[1].file_info.duration_sec =
          [n |-> check_interval * (HardCap - 1), d |-> fps]

\* twenty keyframes, the third request timed out, the other nineteen
\* produced an observation
ThirdOfTwentyTimedOut ==
    /\ Joined
    /\ Len(frames_info) = 20
    /\ ReplyOf(3) = Timeout
    /\ \A i \in (1 .. 20) \ {3} : Succeeded(ReplyOf(i))

\* C19: with 20 keyframes of which the third request times out and the
\* other 19 succeed, the timeline has exactly 19 entries, those of
\* keyframes 1, 2, 4, ..., 20 in that order, no entry has the third
\* keyframe's stamp, and one narrative request is made, from those 19.
C19_ThirdOfTwentyDropped ==
    ThirdOfTwentyTimedOut =>
        /\ Len(segments_data) = 19
        /\ \A k \in 1 .. 19 :
              segments_data[k] = results[IF k < 3 THEN k ELSE k + 1][1]
        /\ \A k \in 1 .. 19 :
              segments_data[k].timestamp =
                  frames_info[IF k < 3 THEN k ELSE k + 1].timestamp_fmt
        /\ \A k \in 1 .. Len(segments_data) :
              segments_data[k].timestamp # frames_info[3].timestamp_fmt
        /\ summary_posts = 1
        /\ summary_request = Some(segments_data)
        /\ pc = "done" => result[1].timeline = segments_data

\* the result of such a run, in which a reply overtook an earlier request
C19_Witness ==
    /\ ThirdOfTwentyTimedOut
    /\ pc = "done"
    /\ overtaken
    /\ Len(result[1].timeline) = 19
    /\ result[1].timeline[3].timestamp = frames_info[4].timestamp_fmt
    /\ summary_posts = 1

RECURSIVE SumOf(_)
SumOf(counts) ==
    IF Len(counts) = 0 THEN 0 ELSE counts[1] + SumOf(Tail(counts))

\* C20: each keyframe gets exactly one vision request, whether that request
\* succeeds, fails or times out; the vision requests of a run are as many
\* as its keyframes, at most 20, and there is none before the fan-out.
C20_OneVisionRequestPerKeyframe ==
    /\ pc \in {"gather", "summary", "done"} =>
          /\ DOMAIN vision_posts = 1 .. Len(frames_info)
          /\ \A i \in 1 .. Len(frames_info) : vision_posts[i] = 1
          /\ SumOf(vision_posts) = Len(frames_info)
          /\ SumOf(vision_posts) <= HardCap
    /\ pc \notin {"gather", "summary", "done"} => vision_posts = <<>>

\* a finished run of 20 keyframes, one of whose requests timed out, with 20
\* vision requests made in all
C20_Witness ==
    /\ pc = "done"
    /\ Len(frames_info) = HardCap
    /\ \E i \in 1 .. Len(frames_info) : ReplyOf(i) = Timeout /\ results[i] = None
    /\ SumOf(vision_posts) = HardCap

(***************************************************************************)
(* Properties of the perceptual hasher.                                    *)
(***************************************************************************)
\* the bit positions at which two ints differ
DifferingBits(a, b) == {p \in 0 .. HashBits - 1 : BitAt(a, p) # BitAt(b, p)}

\* C21: _hamming_distance(h, h) = 0, _hamming_distance(a, b) =
\* _hamming_distance(b, a), the value lies in 0 .. 64, and it is the number
\* of bit positions at which a and b differ.
C21_HammingDistance ==
    hpc = "hamming_done" =>
        /\ distance[1] = Cardinality(DifferingBits(hash1, hash2))
        /\ distance[1] = HammingDistance(BitSet(hash1), BitSet(hash2))
        /\ distance[1] = hamming_distance(hash2, hash1)
        /\ distance[1] \in 0 .. HashBits
        /\ hash1 = hash2 => distance[1] = 0
        /\ hamming_distance(hash1, hash1) = 0

\* the distance of two hashes that differ in all 64 bits, and share none
C21_Witness ==
    /\ hpc = "hamming_done"
    /\ BitSet(hash1) # {}
    /\ BitSet(hash2) # {}
    /\ DifferingBits(hash1, hash2) = 0 .. HashBits - 1
    /\ distance = Some(HashBits)

\* all pixels of the image are equal
IsUniform(image) ==
    \A i \in 0 .. DhashRows - 1 : \A j \in 0 .. DhashCols : image[i][j] = image[0][0]

\* C22: _dhash returns an int in [0, 2^64) whose bit for row i and column
\* pair j, counted row-major from the most significant bit, is 1 iff pixel
\* (i, j) is strictly greater than pixel (i, j + 1); a uniform image hashes
\* to 0, and the hash is a function of the image alone.
C22_DhashBits ==
    hpc = "dhash_done" =>
        /\ DOMAIN hash_out[1] = 1 .. NumLimbs
        /\ \A k \in 1 .. NumLimbs : hash_out[1][k] \in 0 .. LimbBase - 1
        /\ \A i \in 0 .. DhashRows - 1 : \A j \in 0 .. DhashCols - 1 :
              (BitAt(hash_out[1], HashBits - 1 - (DhashCols * i + j)) = 1)
                  <=> (gray[i][j] > gray[i][j + 1])
        /\ IsUniform(gray) => hash_out[1] = [k \in 1 .. NumLimbs |-> 0]
        /\ hash_out[1] = dhash(gray)

\* the hash of an image with one pixel brighter than the rest, not in the
\* last column: bit (r, c) alone is 1
C22_Witness ==
    /\ hpc = "dhash_done"
    /\ \E r \in 0 .. DhashRows - 1, c \in 1 .. DhashCols - 1 :
          /\ gray = MarkedGrid(0, r, c, MaxLevel)
          /\ BitSet(hash_out[1]) = {HashBits - 1 - (DhashCols * r + c)}

(***************************************************************************)
(* Properties of the keyframe selector, continued.                         *)
(***************************************************************************)
\* the loop is at a frame whose index is a multiple of the stride
AtSampledFrame ==
    pc = "scan" /\ frame_idx < nframes /\ frame_idx % check_interval = 0

\* the hash of the frame the loop is at
FrameHash == video[frame_idx \div check_interval + 1]

\* the number of bits in which the frame differs from the reference hash
FrameDistance ==
    IF prev_hash = None THEN 0 ELSE Cardinality(DifferingBits(
        IntWithBits(prev_hash[1]), IntWithBits(FrameHash)))

\* frame_idx / fps - last_selected_time >= 1.0, in integers (fps > 0)
FrameSpaced ==
    frame_idx * last_selected_time.d - last_selected_time.n * fps
        >= fps * last_selected_time.d

\* C23: at a frame rate at which frame_time exists, a sampled frame is
\* appended iff (the reference hash is unset or the frame is at a distance
\* strictly greater than 5 from it) and frame_time - last accepted time
\* >= 1.0; the appended record has the frame's time and that distance as
\* change_score, the earlier records stay, and in the list change_score is
\* 0 for the first record and > 5 for every later one.
C23_AcceptedIffSignificantAndSpaced ==
    [][ (AtSampledFrame /\ fps > 0) =>
          LET appended == Len(selected_frames') = Len(selected_frames) + 1
          IN  /\ appended <=>
                    ((prev_hash = None \/ FrameDistance > 5) /\ FrameSpaced)
              /\ appended =>
                    /\ SubSeq(selected_frames', 1, Len(selected_frames))
                          = selected_frames
                    /\ selected_frames'[Len(selected_frames')].change_score
                          = FrameDistance
                    /\ selected_frames'[Len(selected_frames')].timestamp_sec
                          = [n |-> frame_idx, d |-> fps]
                    /\ last_selected_time' = [n |-> frame_idx, d |-> fps]
              /\ ~appended =>
                    /\ selected_frames' = selected_frames
                    /\ last_selected_time' = last_selected_time
              /\ \A k \in 1 .. Len(selected_frames') :
                    IF k = 1
                    THEN selected_frames'[k].change_score = 0
                    ELSE selected_frames'[k].change_score > 5
      ]_vars

\* at 6 fps: the frame at 0.5 s is at distance exactly 5 and was not
\* accepted, the frame at exactly 1.0 s is at distance 6 and was
C23_Witness ==
    /\ Returned
    /\ fps = 6
    /\ Len(video) = 3
    /\ HammingDistance(video[1], video[2]) = 5
    /\ HammingDistance(video[2], video[3]) = 6
    /\ Len(selected_frames) = 2
    /\ selected_frames[2].timestamp_sec = [n |-> 6, d |-> 6]
    /\ selected_frames[2].change_score = 6

\* C24: a decoded frame whose index is not a multiple of 3 changes nothing
\* but the frame counter, which goes up by one: the reference hash, the
\* last accepted time, the keyframe list, and all else stay as they are.
C24_SkippedFrameOnlyCounts ==
    [][ (pc = "scan" /\ frame_idx < nframes /\ frame_idx % check_interval # 0) =>
          /\ frame_idx' = frame_idx + 1
          /\ prev_hash' = prev_hash
          /\ last_selected_time' = last_selected_time
          /\ selected_frames' = selected_frames
          /\ curr_hash' = curr_hash
          /\ is_significant' = is_significant
          /\ pc' = pc
          /\ err' = err
      ]_vars

\* the loop has passed frames 1 and 2 with the bootstrap keyframe and its
\* hash as reference still in place
C24_Witness ==
    /\ pc = "scan"
    /\ frame_idx = check_interval
    /\ nframes > check_interval
    /\ Len(selected_frames) = 1
    /\ prev_hash = Some(video[1])
    /\ last_selected_time = Zero

\* the video opens and cap.read() delivers no frame
OpensWithoutFrames == path_exists /\ can_open /\ nframes = 0

\* C25: for a video that opens and has no decodable frame, nothing is
\* raised, _extract_keyframes returns the empty list, no vision and no
\* narrative request is issued, and analyze returns a result with an empty
\* timeline, duration_sec 0 and the fixed no-data report.
C25_NoFramesNoDataResult ==
    OpensWithoutFrames =>
        /\ err = "none"
        /\ pc \in {"start", "open", "scan", "extracted", "gather", "done"}
        /\ selected_frames = <<>>
        /\ frames_info = <<>>
        /\ SumOf(vision_posts) = 0
        /\ summary_posts = 0
        /\ summary_request = None
        /\ pc = "done" =>
              result = Some([ file_info |-> [duration_sec |-> Zero],
                              timeline  |-> <<>>,
                              report    |-> NoDataReport ])

\* analyze has returned for such a video, one whose container reports a
\* frame rate of 0
C25_Witness ==
    /\ OpensWithoutFrames
    /\ fps = 0
    /\ pc = "done"
    /\ result # None
    /\ result[1].timeline = <<>>
    /\ result[1].report = NoDataReport

\* the 1-based position of the frame the loop is at among the sampled ones
SampledIndex == frame_idx \div check_interval + 1

\* the sampled frame before this one was significant and was not accepted
PreviousSuppressed ==
    /\ SampledIndex >= 2
    /\ is_significant
    /\ curr_hash = Some(video[SampledIndex - 1])
    /\ last_selected_time # [n |-> frame_idx - check_interval, d |-> fps]

C27_CompletesAtEveryRate ==
    (path_exists /\ can_open /\ nframes >= 1) =>
        /\ pc # "raised"
        /\ err = "none"

\* C27, for the frame rates other than 0: the same statement
C27_CompletesAtPositiveRate ==
    (path_exists /\ can_open /\ nframes >= 1 /\ fps > 0) =>
        /\ pc # "raised"
        /\ err = "none"

(***************************************************************************)
(* error_handler.py, config.py: ErrorHandler.retry_async under the         *)
(* module's retry_config = RetryConfig().                                  *)
(***************************************************************************)
\* RetryConfig's defaults
DefaultMaxRetries == 3
base_delay == 1
max_delay == 10
exponential_base == 2

RECURSIVE Power(_, _)
Power(b, e) == IF e = 0 THEN 1 ELSE b * Power(b, e - 1)

Min(a, b) == IF a < b THEN a ELSE b

\* RetryConfig.get_delay(attempt)
get_delay(a) == Min(base_delay * Power(exponential_base, a), max_delay)

\* max_retries or retry_config.max_retries: None and 0 are both falsy
EffectiveMaxRetries(arg) ==
    IF arg = None \/ arg[1] = 0 THEN DefaultMaxRetries ELSE arg[1]

\* a variant of ShouldSleep: a sleep follows every failed attempt
ShouldSleepAfterEveryFailure(a, limit) == a < limit + 1

\* if attempt < max_retries
ShouldSleep(a, limit) == a < limit

\* what func returns and raises
Results == {"r1", "r2"}
Exceptions == {"timeout", "refused"}

\* the values max_retries is called with
RetryInputs == {None} \cup {Some(n) : n \in 0 .. MaxRetriesArg}

\* the variables a call of retry_async does not touch
not_retry_vars == <<analyzer_vars, hasher_vars, machine_vars, manager_vars>>

InitRetry ==
    /\ AnalyzerOff
    /\ HasherOff
    /\ MachineOff
    /\ ManagerOff
    /\ max_retries_arg \in RetryInputs
    /\ max_retries = 0
    /\ attempt = 0
    /\ last_exception = None
    /\ rpc = "called"
    /\ func_calls = 0
    /\ func_raised = <<>>
    /\ sleeps = <<>>
    /\ retry_outcome = None

\* for attempt in range(max_retries + 1): the step to the next iteration,
\* or past the loop to raise last_exception
NextIteration(exception) ==
    IF attempt + 1 < max_retries + 1
    THEN /\ attempt' = attempt + 1
         /\ rpc' = "attempt"
         /\ UNCHANGED retry_outcome
    ELSE /\ rpc' = "raised"
         /\ retry_outcome' = Some(exception)
         /\ UNCHANGED attempt

\* lines 80-83: the limit is chosen and the loop entered
RetryEnter ==
    /\ rpc = "called"
    /\ max_retries' = EffectiveMaxRetries(max_retries_arg)
    /\ last_exception' = None
    /\ attempt' = 0
    /\ rpc' = "attempt"
    /\ UNCHANGED <<max_retries_arg, func_calls, func_raised, sleeps,
                   retry_outcome, not_retry_vars>>

\* return await func(*args, **kwargs)
FuncReturns(value) ==
    /\ rpc = "attempt"
    /\ func_calls' = func_calls + 1
    /\ retry_outcome' = Some(value)
    /\ rpc' = "returned"
    /\ UNCHANGED <<max_retries_arg, max_retries, attempt, last_exception,
                   func_raised, sleeps, not_retry_vars>>

\* func raises: except Exception as e
FuncRaises(e) ==
    /\ rpc = "attempt"
    /\ func_calls' = func_calls + 1
    /\ func_raised' = Append(func_raised, e)
    /\ last_exception' = Some(e)
    /\ IF ShouldSleep(attempt, max_retries)
       THEN /\ sleeps' = Append(sleeps, get_delay(attempt))
            /\ rpc' = "sleeping"
            /\ UNCHANGED <<attempt, retry_outcome>>
       ELSE /\ NextIteration(e)
            /\ UNCHANGED sleeps
    /\ UNCHANGED <<max_retries_arg, max_retries, not_retry_vars>>

\* asyncio.sleep(delay) returns
SleepEnds ==
    /\ rpc = "sleeping"
    /\ NextIteration(last_exception[1])
    /\ UNCHANGED <<max_retries_arg, max_retries, last_exception, func_calls,
                   func_raised, sleeps, not_retry_vars>>

NextRetry ==
    \/ RetryEnter
    \/ \E value \in Results : FuncReturns(value)
    \/ \E e \in Exceptions : FuncRaises(e)
    \/ SleepEnds

SpecRetry == InitRetry /\ [][NextRetry]_vars

(***************************************************************************)
(* Properties of the state machine.                                        *)
(***************************************************************************)
\* the last operation was transition(event)
WasTransition(event) == last_call = <<"transition", event>>

\* event is listed for state in the table
Listed(state, event) == event \in DOMAIN VALID_TRANSITIONS[state]

\* C28: transition(event) returns True and moves to
\* VALID_TRANSITIONS[current_state][event] iff the event is listed for the
\* current state; otherwise it returns False, leaves current_state as it was
\* and calls no listener.  A successful transition calls every entry of the
\* listener list exactly once, in order, with (old_state, new_state).
C28_TransitionFollowsTable ==
    \A event \in StateEvent :
        WasTransition(event) =>
            /\ last_return \in {"True", "False"}
            /\ (last_return = "True") <=> Listed(state_before, event)
            /\ last_return = "True" =>
                  /\ current_state = VALID_TRANSITIONS[state_before][event]
                  /\ Len(notified) = Len(listeners)
                  /\ \A k \in 1 .. Len(listeners) :
                        notified[k] = <<listeners[k], state_before, current_state>>
            /\ last_return = "False" =>
                  /\ current_state = state_before
                  /\ notified = <<>>

\* an accepted transition with two listeners registered, both called; and
\* a state with a rejected one is reached as well
C28_Witness ==
    /\ WasTransition("audio_received")
    /\ last_return = "True"
    /\ state_before = "listening"
    /\ current_state = "processing"
    /\ listeners = <<"a", "b">>
    /\ notified = <<(<<"a", "listening", "processing">>),
                    (<<"b", "listening", "processing">>)>>

\* C29: after a RESET event, from any of the four states, the machine is
\* in IDLE and the event was accepted; after an ERROR event the machine is
\* in IDLE too: accepted from LISTENING, PROCESSING and SPEAKING, rejected
\* in IDLE, which it leaves at IDLE.  reset() is transition(RESET).
C29_ResetAndErrorLeadToIdle ==
    /\ (WasTransition("reset") \/ last_call = <<"reset">>) =>
          current_state = "idle"
    /\ WasTransition("reset") => last_return = "True"
    /\ WasTransition("error") =>
          /\ current_state = "idle"
          /\ (last_return = "True") <=>
                state_before \in {"listening", "processing", "speaking"}
          /\ state_before = "idle" => last_return = "False"
    /\ \A st \in ConversationState :
          /\ NewState(st, "reset") = Some("idle")
          /\ NewState(st, "error") = IF st = "idle" THEN None ELSE Some("idle")

\* an ERROR event accepted while SPEAKING
C29_Witness ==
    /\ WasTransition("error")
    /\ state_before = "speaking"
    /\ current_state = "idle"
    /\ last_return = "True"

(***************************************************************************)
(* Properties of the conversation manager.                                 *)
(***************************************************************************)
\* where an event stands in the order of a successful process_audio stream
EventRank(event) ==
    CASE event = StateChange("processing") -> 1
      [] event[1] = "transcript" -> 2
      [] event[1] = "response" -> 3
      [] event = StateChange("speaking") -> 4
      [] event[1] = "audio" -> 5
      [] event = StateChange("listening") -> 6
      [] event[1] = "done" -> 7
      [] OTHER -> 8

\* the stream of a process_audio call that met no failure, from what the
\* three clients delivered to it
SuccessfulStream(c) ==
    <<StateChange("processing")>>
    \o [k \in 1 .. Len(transcript_chunks[c]) |->
            TextEvent("transcript", transcript_chunks[c][k])]
    \o [k \in 1 .. Len(response_chunks[c]) |->
            TextEvent("response", response_chunks[c][k])]
    \o <<StateChange("speaking")>>
    \o [k \in 1 .. audio_chunks[c] |-> AudioEvent]
    \o <<StateChange("listening"), DoneEvent>>

\* call c is a process_audio call that has taken no except branch
ProcessAudioUnfailed(c) ==
    call_kind[c] = "process_audio" /\ failure[c] = "none"

\* C30: when ASR, LLM and TTS all succeed with non-empty output,
\* process_audio yields STATE_CHANGE(processing), then all TRANSCRIPT
\* events, then all RESPONSE events, then STATE_CHANGE(speaking), then all
\* AUDIO events, then STATE_CHANGE(listening), then DONE: at every point of
\* the call the events yielded so far are in that order (no RESPONSE before
\* the last TRANSCRIPT, no AUDIO before the last RESPONSE), and once DONE is
\* yielded the stream is exactly that sequence; whatever state the session
\* was in at the start and whatever a second call on the session does.
C30_SuccessfulEventOrder ==
    \A c \in Calls :
        ProcessAudioUnfailed(c) =>
            /\ \A j, k \in 1 .. Len(events[c]) :
                  j < k => EventRank(events[c][j]) <= EventRank(events[c][k])
            /\ cpc[c] \in {"done_yielded", "finished"} =>
                  /\ Len(transcript_chunks[c]) >= 1
                  /\ Len(response_chunks[c]) >= 1
                  /\ events[c] = SuccessfulStream(c)

\* a process_audio call that ran to its end with two transcript chunks,
\* two response chunks and two audio chunks, next to a second call
C30_Witness ==
    /\ ProcessAudioUnfailed(1)
    /\ cpc[1] = "finished"
    /\ start_state[1] = "listening"
    /\ Len(transcript_chunks[1]) = 2
    /\ Len(response_chunks[1]) = 2
    /\ audio_chunks[1] = 2
    /\ Len(events[1]) = 10
    /\ call_kind[2] = "process_audio"

\* call c yields an event in this step
Yields(c) == events'[c] # events[c]

\* the event call c yields in this step
Yielded(c) == events'[c][Len(events'[c])]

\* no call other than c has started
Alone(c) == \A d \in Calls \ {c} : call_kind'[d] = "none"

\* C31: every STATE_CHANGE event yielded by process_audio or
\* start_conversation reports the state the session's state machine is in
\* when the event is yielded, for every state the session can be in when
\* the call starts (IDLE, for a freshly created session, included).
C31_StateChangeReportsActualState ==
    [][\A c \in Calls :
          (Yields(c) /\ Yielded(c)[1] = "state_change") =>
              Yielded(c)[2] = current_state']_vars

\* the same statement for a call that is the only one on the session, and
\* that, if it is process_audio, started with the state machine in LISTENING
C31_ReportsActualStateAloneFromListening ==
    [][\A c \in Calls :
          (/\ Yields(c)
           /\ Yielded(c)[1] = "state_change"
           /\ Alone(c)
           /\ call_kind'[c] = "process_audio" => start_state'[c] = "listening") =>
              Yielded(c)[2] = current_state']_vars

\* the messages call c has added to the session's history
MessagesOf(c) == SelectSeq(messages, LAMBDA m : m.call = c)

\* call c is a process_audio call that has yielded ERROR
EndedWithError(c) ==
    /\ call_kind[c] = "process_audio"
    /\ cpc[c] \in {"error_yielded", "finished"}
    /\ failure[c] # "none"

\* C32: if a process_audio call ends with an ERROR event (ASR, LLM or TTS
\* failure, empty transcript or empty response), the session's message
\* history holds no message of that call: it is what it was before the
\* call.  A user or assistant message is kept only when the call ends
\* with DONE.
C32_ErrorLeavesHistoryUnchanged ==
    \A c \in Calls : EndedWithError(c) => MessagesOf(c) = <<>>

\* the same statement for the failures that come before the user message
\* is added: an ASR failure and an empty transcript
C32_AsrErrorLeavesHistoryUnchanged ==
    \A c \in Calls :
        (EndedWithError(c) /\ failure[c] \in {"asr", "empty_transcript"}) =>
            MessagesOf(c) = <<>>

\* the events of call c that are DONE or ERROR
TerminalEvents(c) ==
    SelectSeq(events[c], LAMBDA e : e[1] \in {"done", "error"})

\* call c has been consumed to its end
FullyConsumed(c) == cpc[c] = "finished"

\* C33: every fully consumed process_audio or start_conversation stream
\* ends with exactly one terminal event, DONE or ERROR and never both, and
\* no event is yielded after the terminal event.  While a call is running
\* its stream holds at most one terminal event, and only as its last event.
C33_OneTerminalEventLast ==
    \A c \in Calls :
        /\ Len(TerminalEvents(c)) <= 1
        /\ \A k \in 1 .. Len(events[c]) - 1 :
              events[c][k][1] \notin {"done", "error"}
        /\ FullyConsumed(c) =>
              /\ Len(events[c]) >= 1
              /\ events[c][Len(events[c])][1] \in {"done", "error"}
              /\ events[c][Len(events[c])][1] = "error" <=> failure[c] # "none"

\* nothing is yielded by a call that has yielded its terminal event
C33_NothingAfterTerminal ==
    [][\A c \in Calls :
          cpc[c] \in {"done_yielded", "error_yielded", "finished"} =>
              events'[c] = events[c]]_vars

\* one call ended with DONE and the other with ERROR after some audio
C33_Witness ==
    /\ FullyConsumed(1)
    /\ FullyConsumed(2)
    /\ call_kind[1] = "process_audio"
    /\ call_kind[2] = "start_conversation"
    /\ events[1][Len(events[1])] = DoneEvent
    /\ events[2][Len(events[2])] = ErrorEvent
    /\ audio_chunks[2] = 1

\* call c yields the terminal event of the given type in this step
YieldsTerminal(c, type) == Yields(c) /\ Yielded(c)[1] = type

\* the start states C34 speaks of for a stream that ends with DONE
StartedAsC34Says(c) ==
    \/ call_kind'[c] = "start_conversation"
    \/ call_kind'[c] = "process_audio" /\ start_state'[c] = "listening"

\* C34: whenever a process_audio or start_conversation stream ends with an
\* ERROR event the session's state machine is in IDLE at that point,
\* whatever state it was in when the failure happened; whenever it ends
\* with DONE, after starting from LISTENING (process_audio) or from any
\* state (start_conversation), the state machine is in LISTENING.
C34_TerminalEventState ==
    [][\A c \in Calls :
          /\ YieldsTerminal(c, "error") => current_state' = "idle"
          /\ (YieldsTerminal(c, "done") /\ StartedAsC34Says(c)) =>
                current_state' = "listening"]_vars

\* the ERROR half of C34 on its own
C34_ErrorEndsInIdle ==
    [][\A c \in Calls :
          YieldsTerminal(c, "error") => current_state' = "idle"]_vars

\* the DONE half of C34 for a call that is the only one on its session
C34_DoneEndsInListeningAlone ==
    [][\A c \in Calls :
          (YieldsTerminal(c, "done") /\ StartedAsC34Says(c) /\ Alone(c)) =>
              current_state' = "listening"]_vars

\* call c is inside the ASR - LLM - TTS pipeline of process_audio
InPipeline(c) ==
    call_kind[c] = "process_audio" /\ cpc[c] \in {"asr", "llm", "tts"}

\* both calls on the session are process_audio calls
TwoProcessAudioCalls == \A c \in Calls : call_kind[c] = "process_audio"

\* every user message that has a successor is followed by the assistant
\* message of the same call
TurnsNotInterleaved ==
    \A k \in 1 .. Len(messages) - 1 :
        messages[k].role = "user" =>
            /\ messages[k + 1].role = "assistant"
            /\ messages[k + 1].call = messages[k].call

\* C35: for two process_audio calls running concurrently on the same
\* session, interleaving at their await points, the session history never
\* contains interleaved turns (each call's user message is immediately
\* followed by that same call's assistant message), and the second call
\* does no pipeline work while the state machine is in PROCESSING or
\* SPEAKING for the first: the two calls are never both inside the pipeline.
C35_ConcurrentCallsSerialised ==
    TwoProcessAudioCalls =>
        /\ TurnsNotInterleaved
        /\ ~(InPipeline(1) /\ InPipeline(2))

(***************************************************************************)
(* Properties of retry_async.                                              *)
(***************************************************************************)
\* C36: retry_async returns the result of the first attempt that succeeds
\* and makes no further call to func after it (every call before it
\* failed, and it is the last call); if every attempt fails it raises the
\* exception of the last attempt; it sleeps once between two consecutive
\* attempts, for get_delay(attempt), and never after the final failed attempt.
C36_FirstSuccessOrLastException ==
    /\ rpc = "returned" =>
          /\ func_calls = Len(func_raised) + 1
          /\ retry_outcome # None /\ retry_outcome[1] \in Results
          /\ Len(sleeps) = Len(func_raised)
    /\ rpc = "raised" =>
          /\ func_calls = Len(func_raised)
          /\ func_calls = max_retries + 1
          /\ retry_outcome = Some(func_raised[Len(func_raised)])
          /\ Len(sleeps) = func_calls - 1
    /\ rpc = "attempt" =>
          /\ func_calls = attempt
          /\ Len(func_raised) = attempt
          /\ Len(sleeps) = attempt
    /\ rpc = "sleeping" =>
          /\ Len(sleeps) = Len(func_raised)
          /\ attempt < max_retries
    /\ \A k \in 1 .. Len(sleeps) : sleeps[k] = get_delay(k - 1)

\* the steps a finished call takes: none
C36_NoCallAfterTheEnd ==
    [][(rpc \in {"returned", "raised"}) => (func_calls' = func_calls)]_vars

\* the third attempt succeeds after two failures and two sleeps
C36_Witness ==
    /\ rpc = "returned"
    /\ max_retries_arg = Some(2)
    /\ func_raised = <<"timeout", "refused">>
    /\ func_calls = 3
    /\ sleeps = <<1, 2>>
    /\ retry_outcome = Some("r2")

\* every attempt fails: the last exception is raised, no sleep after it
C36_WitnessAllFail ==
    /\ rpc = "raised"
    /\ max_retries_arg = None
    /\ func_raised = <<"timeout", "timeout", "refused", "timeout">>
    /\ sleeps = <<1, 2, 4>>
    /\ retry_outcome = Some("timeout")

\* C37: for every explicitly passed max_retries >= 0, 0 included,
\* retry_async invokes func at most max_retries + 1 times and the limit it
\* works with is the one passed; the configured default applies only when
\* max_retries is not passed.
C37_PassedLimitIsHonoured ==
    (max_retries_arg # None /\ rpc # "called") =>
        /\ max_retries = max_retries_arg[1]
        /\ func_calls <= max_retries_arg[1] + 1

\* the same statement for every passed max_retries >= 1, and the default
\* when none is passed
C37_PositiveLimitIsHonoured ==
    rpc # "called" =>
        /\ (max_retries_arg # None /\ max_retries_arg[1] >= 1) =>
              /\ max_retries = max_retries_arg[1]
              /\ func_calls <= max_retries_arg[1] + 1
        /\ max_retries_arg = None =>
              /\ max_retries = DefaultMaxRetries
              /\ func_calls <= DefaultMaxRetries + 1

====
